---- MODULE Spec2Model ----
(***************************************************************************)
(* Model of the request/response messaging layer of @elgato/utils:         *)
(* MessageResponder / RpcRequestResponder, the path-based Client, the     *)
(* Server with its route table, and the MessageGateway that joins them.   *)
(*                                                                         *)
(* Every action is one synchronous segment of the code, from one await to *)
(* the next: the event loop never interleaves anything inside a segment.  *)
(* A call of the transport proxy is two steps: the call itself (the       *)
(* envelope is handed over) and, later, the settling of what it returned. *)
(***************************************************************************)
EXTENDS Integers, Sequences, FiniteSets, TLC

\* The JavaScript value undefined (an absent optional field).
Undefined == "undefined"

\* Bodies carried by requests and responses.
Bodies == {"a", "b"}

\* What a call of the transport proxy may do: resolve to true or false, or
\* throw / reject.
ProxyOutcomes == {"true", "false", "throw"}

(***************************************************************************)
(* Bounds.                                                                 *)
(***************************************************************************)
\* Number of calls made on the responder under test.
MaxCalls == 3

\* Number of requests the client side sends.
MaxRequests == 2

\* Number of requests the server side receives.
MaxInbound == 1

\* Number of route registrations.
MaxRoutes == 2

\* Number of values the environment hands to Client.receive.
MaxReceives == 2

\* RpcServer.addMethod calls.
MaxMethods == 2

\* Values handed to RpcServer.receive.
MaxRpcInbound == 1
MaxGatewayReceives == 2
MaxRpcRequests == 2
MaxRpcReceives == 2
MaxNotifies == 2
MaxObjects == 2
MaxSendCalls == 3
MaxStackCalls == 4
MaxDebounceCalls == 4
MaxHandlerCalls == 4
MaxDispatches == 2
MaxEmitterCalls == 4

(***************************************************************************)
(* Envelopes.                                                              *)
(***************************************************************************)
\* The ServerResponseMessage built by MessageResponder.send.
ResponseMessage(id, path, status, body) ==
    [__type |-> "response", id |-> id, path |-> path, body |-> body, status |-> status]

\* The JSON-RPC success response built by RpcRequestResponder.success.
RpcResultMessage(id, result) ==
    [jsonrpc |-> "2.0", id |-> id, result |-> result]

\* The JSON-RPC error response built by RpcRequestResponder.error.
RpcErrorMessage(id, error) ==
    [jsonrpc |-> "2.0", id |-> id, error |-> error]

\* The Request envelope of Request.toJSON.
RequestMessage(id, path, body, unidirectional) ==
    [__type |-> "request", id |-> id, path |-> path, body |-> body,
     unidirectional |-> unidirectional]

\* JSON values that are strings (ids and paths), as opposed to the other
\* scalars that can stand in their place ("#7" is the number 7).
Paths == {"/a", "/b"}
Ids == {"r1", "r2", "r3", "r4"}
\* The ids crypto.randomUUID() hands out, in the order of the calls.
IdSeq == <<"r1", "r2", "r3", "r4">>
JsonStrings == Ids \cup Paths \cup {"zz", "/none"}
StatusCodes == {200, 202, 406, 408, 500, 501}

\* Response.parse: the zod schema of a response, field by field.
IsResponse(v) ==
    /\ {"__type", "id", "path", "status"} \subseteq DOMAIN v
    /\ v.__type = "response"
    /\ v.id \in JsonStrings
    /\ v.path \in JsonStrings
    /\ v.status \in StatusCodes

\* A request schema that does not look at the __type literal.
IsRequestAnyType(v) ==
    /\ {"__type", "id", "path", "unidirectional"} \subseteq DOMAIN v
    /\ v.id \in JsonStrings
    /\ v.path \in JsonStrings
    /\ v.unidirectional \in BOOLEAN

\* Request.parse: the zod schema of a request, field by field.
IsRequest(v) ==
    /\ {"__type", "id", "path", "unidirectional"} \subseteq DOMAIN v
    /\ v.__type = "request"
    /\ v.id \in JsonStrings
    /\ v.path \in JsonStrings
    /\ v.unidirectional \in BOOLEAN

\* Response.ok.
Ok(res) == res.status >= 200 /\ res.status < 300

\* A pool that keeps the entry of a resolved request.
PoolKeep(pool, id) == pool

\* Client.#resolveRequest: this.#requests.delete(response.id).
PoolDelete(pool, id) == pool \ {id}

\* A client that never notices that the proxy refused the request.
NotAcceptedNever(o) == FALSE

\* Client.send: `if (!accepted)` on what the proxy resolved to.
NotAccepted(o) == o = "false"

\* The response handler of Client.send: clearTimeout unless the status is 408.
ClearsTimeout(status) == status # 408

\* Whether Client.receive(v) finds a pending request for the value.
ClientMatches(pool, v) == IsResponse(v) /\ v.id \in pool

\* What a route handler may do when it is invoked.  "void" returns undefined;
\* "ret" returns its body, directly or through a promise; "success" starts
\* responder.success(body) without awaiting it and returns undefined;
\* "successAwait" returns the promise of responder.success(body); "throw"
\* throws or rejects.
HandlerKinds == {"void", "ret", "success", "successAwait", "throw"}

\* Contexts the context provider returns, and route filters: "any" is the
\* default filter, the others accept the context of that name only.
Contexts == {"A"}
Filters == {"any", "B"}

\* The body the handler of each registration answers with.
BodySeq == <<"b1", "b2", "b3", "b4">>

\* A route listener that ignores its filter.
FilterPassAlways(reg, ctx) == TRUE

\* Server.route: options.filter(context).
FilterPass(reg, ctx) == reg.filt = "any" \/ reg.filt = ctx

\* A registration that goes to the front of the listeners.
ListenerPrepend(listeners, reg) == <<reg>> \o listeners

\* EventEmitter.disposableOn: listeners.push({ listener }).
ListenerPush(listeners, reg) == Append(listeners, reg)

\* An off that drops every listener of the event the listener is found on.
ListenerOffAll(listeners, uid) ==
    IF \E k \in 1..Len(listeners) : listeners[k].uid = uid THEN <<>> ELSE listeners

\* EventEmitter.off: remove every entry of the listener.
ListenerOff(listeners, uid) == SelectSeq(listeners, LAMBDA reg : reg.uid # uid)

\* A server that answers 200 whether or not the request was routed.
TailStatusAlways200(resolved) == 200

\* A server that answers 501 whether or not the request was routed.
TailStatusAlways501(resolved) == 501

\* Server.#routeRequest after the loop: 200 when a route resolved the
\* request, 501 otherwise.
TailStatus(resolved) == IF resolved THEN 200 ELSE 501

\* JavaScript truthiness of an optional string: `if (this.#id)`.
Truthy(id) == id # Undefined /\ id # ""

(***************************************************************************)
(* Responders.                                                             *)
(***************************************************************************)
\* A guard that lets every call through.
CanRespondAlways(responded) == TRUE

\* MessageResponder.canRespond.
CanRespond(responded) == ~responded

\* The status MessageResponder.success / fail / send passes to send.
StatusOf(method, status) ==
    CASE method = "success" -> 200
      [] method = "fail" -> 500
      [] OTHER -> status

\* RpcRequestResponder: whether a call reaches #trySend and passes its guard.
\* success returns early when the request has no (truthy) id.
RpcWillSend(method, id, responded) ==
    /\ method = "success" => Truthy(id)
    /\ ~responded

VARIABLES
    rKind,       \* responder under test: "message" or "rpc"
    rId,         \* id of the request it answers (Undefined: a notification)
    rResponded,  \* its #responded field
    rPc,         \* "idle", or "await" while a call awaits the proxy
    rCalls,      \* the calls made so far, with what each did
    rProxy       \* the payloads handed to the proxy, in order

respVars == <<rKind, rId, rResponded, rPc, rCalls, rProxy>>

VARIABLES
    cNext,       \* number of requests sent so far
    cRequests,   \* Client.#requests: the ids with a pending response handler
    cReq,        \* the envelope of each request sent
    cTimer,      \* timeoutMonitor of each request: none, armed, cleared, fired
    cSend,       \* position of each Client.send call: new, await, returned, threw
    cProxy,      \* what the proxy call of each request settles to
    cResolved,   \* the responses each request's resolver was invoked with
    cAttempts,   \* the #resolveRequest calls made for each request, in order
    cRecv,       \* number of values handed to Client.receive so far
    cLast,       \* the last Client.receive call: its value and what it returned
    c2s          \* request envelopes the proxy accepted, not yet received

clientVars == <<cNext, cRequests, cReq, cTimer, cSend, cProxy, cResolved, cAttempts,
                cRecv, cLast, c2s>>

VARIABLES
    routes,      \* Server.#routes: the listeners of each path, in order
    sUid,        \* number of Server.route calls so far
    sDisposed,   \* registrations whose disposable has been disposed
    sCount,      \* number of requests received so far
    disp,        \* the #routeRequest call of each request received
    sResponded,  \* #responded of the MessageResponder of each request
    sDetached,   \* responder sends started by a handler and not awaited, in flight
    sLog,        \* what happened while each request was handled, in order
    s2c          \* response envelopes handed to the proxy and not yet received,
                 \* per request, in the order of the proxy calls

serverVars == <<routes, sUid, sDisposed, sCount, disp, sResponded, sDetached, sLog,
                s2c>>

VARIABLES
    jMethods,    \* RpcServer.#methods: the listeners of each method name, in order
    jHandles,    \* the addMethod calls so far: name, function, whether disposed
    jCount,      \* number of values RpcServer.receive was called with so far
    jDisp,       \* the RpcServer.receive call of each value
    jResponded,  \* #responded of the RpcRequestResponder of each request
    jDetached,   \* responder sends started by a handler and not awaited, in flight
    jLog         \* what happened while each request was handled, in order

rpcServerVars == <<jMethods, jHandles, jCount, jDisp, jResponded, jDetached, jLog>>

VARIABLES
    gPc,         \* where the MessageGateway.receive call under way stands
    gLog         \* the MessageGateway.receive calls so far, in order

gatewayVars == <<gPc, gLog>>

VARIABLES
    qVariant,    \* how the RpcClient surfaces a response without id
    qNext,       \* number of requests the RpcClient sent so far
    qRequests,   \* RpcClient.#requests: the ids with a pending response handler
    qTimer,      \* the timeout monitor of each request
    qSend,       \* where each #send call stands
    qProxy,      \* what the proxy does with each request
    qResolved,   \* the responses each request promise was resolved with
    qSurfaced,   \* the responses surfaced without a request, in order
    qRecv,       \* number of values RpcClient.receive was called with so far
    qLast,       \* the last value given to RpcClient.receive and what it returned
    qOut,        \* the envelopes the RpcClient passed to its proxy, in order
    qNotes       \* the RpcClient.notify calls so far: proxy outcome and state

rpcClientVars == <<qVariant, qNext, qRequests, qTimer, qSend, qProxy, qResolved,
                   qSurfaced, qRecv, qLast, qOut, qNotes>>

VARIABLES
    pObjs,       \* number of Request objects constructed so far
    pCalls,      \* the Client.send calls so far: request id, proxy, timer, promise
    pPool        \* Client.#requests: for each id the call whose handler it holds

poolVars == <<pObjs, pCalls, pPool>>

VARIABLES
    dStack,      \* DisposableStack.#disposables: registrations, top last
    dDisposed,   \* DisposableStack.#disposed
    dRegs,       \* every registration made: the resource and the method used
    dGuard,      \* per registration: isDisposed of its deferredDisposable
    dInv,        \* per registration: invocations of its dispose callback
    dLast        \* the latest call on the stack and how it ended

stackVars == <<dStack, dDisposed, dRegs, dGuard, dInv, dLast>>

VARIABLES
    bHandle,     \* debounce: arguments held by the pending timer, or Undefined
    bResolvers,  \* debounce: promise of the current `resolvers`, 0 when undefined
    bPromises,   \* debounce: number of promises created
    bCalls,      \* every call of the debounced function: arguments and promise
    bRuns,       \* every invocation of fn: captured promise, arguments, state
    bResolved    \* promises that were resolved

debounceVars == <<bHandle, bResolvers, bPromises, bCalls, bRuns, bResolved>>

VARIABLES
    hResponded,  \* RpcRequestResponseHandler.#responded, per request id
    hWritten,    \* responses written to the sending stream
    hLast        \* the latest send() / error() call and how it ended

handlerVars == <<hResponded, hWritten, hLast>>

VARIABLES
    mMethods,    \* RpcMethodDispatcher.#methods: handlers of each method
    mDisp        \* every dispatch: request, handlers found, invocations, responses

dispatcherVars == <<mMethods, mDisp>>

VARIABLES
    eKeys,       \* EventEmitter.events: the event names the map has an entry for
    eList,       \* EventEmitter.events: the listeners array of each event name
    eHandles,    \* disposables returned by disposableOn
    eCount,      \* number of registrations made
    eLast        \* the latest call on the emitter, what it found and what it did

emitterVars == <<eKeys, eList, eHandles, eCount, eLast>>

coreVars == <<respVars, clientVars, serverVars, rpcServerVars, gatewayVars, rpcClientVars>>

utilVars == <<poolVars, stackVars, debounceVars, handlerVars, dispatcherVars, emitterVars>>

vars == <<coreVars, utilVars>>

\* What the steps of one component leave alone.
FrameResponder == UNCHANGED <<utilVars, clientVars, serverVars, rpcServerVars, gatewayVars, rpcClientVars>>
FrameClient == UNCHANGED <<utilVars, respVars, serverVars, rpcServerVars, gatewayVars, rpcClientVars>>
FrameServer == UNCHANGED <<utilVars, respVars, clientVars, rpcServerVars, gatewayVars, rpcClientVars>>
FrameLink == UNCHANGED <<utilVars, respVars, rpcServerVars, gatewayVars, rpcClientVars>>
FrameRpcServer == UNCHANGED <<utilVars, respVars, clientVars, serverVars, gatewayVars, rpcClientVars>>
FrameRpcClient == UNCHANGED <<utilVars, respVars, clientVars, serverVars, rpcServerVars, gatewayVars>>
FramePool == UNCHANGED <<coreVars, stackVars, debounceVars, handlerVars, dispatcherVars, emitterVars>>
FrameStack == UNCHANGED <<coreVars, poolVars, debounceVars, handlerVars, dispatcherVars, emitterVars>>
FrameDebounce == UNCHANGED <<coreVars, poolVars, stackVars, handlerVars, dispatcherVars, emitterVars>>
FrameHandler == UNCHANGED <<coreVars, poolVars, stackVars, debounceVars, dispatcherVars, emitterVars>>
FrameDispatcher == UNCHANGED <<coreVars, poolVars, stackVars, debounceVars, handlerVars, emitterVars>>
FrameEmitter == UNCHANGED <<coreVars, poolVars, stackVars, debounceVars, handlerVars, dispatcherVars>>

(***************************************************************************)
(* One responder, used sequentially (each call awaited before the next).  *)
(***************************************************************************)
RespMethods == IF rKind = "message" THEN {"success", "fail", "send"} ELSE {"success", "error"}

\* The envelope a call would hand to the proxy.
RespPayload(method, status, body) ==
    IF rKind = "message"
    THEN ResponseMessage(rId, "/", StatusOf(method, status), body)
    ELSE IF method = "success" THEN RpcResultMessage(rId, body) ELSE RpcErrorMessage(rId, body)

\* Whether a call passes the guard of send / #trySend and invokes the proxy.
RespWillSend(method) ==
    IF rKind = "message" THEN CanRespond(rResponded) ELSE RpcWillSend(method, rId, rResponded)

InitRespIdle ==
    /\ rKind = "message" /\ rId = "r1" /\ rResponded = FALSE
    /\ rPc = "idle" /\ rCalls = <<>> /\ rProxy = <<>>

InitResp ==
    /\ rKind \in {"message", "rpc"}
    /\ rId \in (IF rKind = "message" THEN {"r1"} ELSE {"r1", "", Undefined})
    /\ rResponded = FALSE
    /\ rPc = "idle"
    /\ rCalls = <<>>
    /\ rProxy = <<>>

\* responder.success(b) / fail(b) / send(status, b) / error(b), up to the await
\* of the proxy (or to the end, when the guard stops the call).
RespCall(method, status, body) ==
    /\ rPc = "idle"
    /\ Len(rCalls) < MaxCalls
    /\ method \in RespMethods
    /\ LET payload == RespPayload(method, status, body)
       IN IF RespWillSend(method)
          THEN /\ rProxy' = Append(rProxy, payload)
               /\ rCalls' = Append(rCalls, [method |-> method, payload |-> payload, outcome |-> "pending"])
               /\ rPc' = "await"
          ELSE /\ rCalls' = Append(rCalls, [method |-> method, payload |-> payload, outcome |-> "noop"])
               /\ UNCHANGED <<rProxy, rPc>>
    /\ UNCHANGED <<rKind, rId, rResponded>>

\* The proxy call settles: #responded is set only when it did not throw.
RespSettle(o) ==
    /\ rPc = "await"
    /\ rPc' = "idle"
    /\ rResponded' = IF o = "throw" THEN rResponded ELSE TRUE
    /\ rCalls' = [rCalls EXCEPT ![Len(rCalls)].outcome = IF o = "throw" THEN "threw" ELSE "sent"]
    /\ UNCHANGED <<rKind, rId, rProxy>>

RespCallAny ==
    \E m \in {"success", "fail", "send", "error"}, st \in {200, 202}, b \in Bodies \cup {Undefined} :
        RespCall(m, st, b) /\ FrameResponder

RespSettleAny == \E o \in ProxyOutcomes : RespSettle(o) /\ FrameResponder

NextResp ==
    \/ RespCallAny
    \/ RespSettleAny

(***************************************************************************)
(* The path-based Client.                                                  *)
(***************************************************************************)
ReqIds == {IdSeq[n] : n \in 1..MaxRequests}
NoValue == [__type |-> "none"]

InitClient ==
    /\ cNext = 0
    /\ cRequests = {}
    /\ cReq = [id \in ReqIds |-> NoValue]
    /\ cTimer = [id \in ReqIds |-> "none"]
    /\ cSend = [id \in ReqIds |-> "new"]
    /\ cProxy = [id \in ReqIds |-> "none"]
    /\ cResolved = [id \in ReqIds |-> <<>>]
    /\ cAttempts = [id \in ReqIds |-> <<>>]
    /\ cRecv = 0
    /\ cLast = [value |-> NoValue, result |-> FALSE]
    /\ c2s = <<>>

\* Client.#resolveRequest(res), with the response handler it invokes.  `timers`
\* is the state of the timers when it is called.
ResolveRequest(res, src, timers) ==
    LET id == res.id
        found == id \in cRequests
    IN /\ cRequests' = PoolDelete(cRequests, id)
       /\ IF id \in ReqIds /\ cSend[id] # "new"
          THEN /\ cAttempts' = [cAttempts EXCEPT ![id] =
                                    Append(@, [src |-> src, res |-> res, found |-> found])]
               /\ cResolved' = IF found THEN [cResolved EXCEPT ![id] = Append(@, res)]
                                          ELSE cResolved
               /\ cTimer' = IF found /\ ClearsTimeout(res.status) /\ timers[id] = "armed"
                             THEN [timers EXCEPT ![id] = "cleared"]
                             ELSE timers
          ELSE /\ cTimer' = timers
               /\ UNCHANGED <<cAttempts, cResolved>>

\* Gateway.send(path, body) / send(options) -> Client.send(new Request(..)), up
\* to the await of the proxy: the handler is registered, the timer armed and
\* the proxy called.  The proxy hands the envelope on exactly when it is going
\* to report acceptance.
ClientSend(path, body, uni, o) ==
    /\ cNext < MaxRequests
    /\ LET id == IdSeq[cNext + 1]
           env == RequestMessage(id, path, body, uni)
       IN /\ cNext' = cNext + 1
          /\ cRequests' = cRequests \cup {id}
          /\ cReq' = [cReq EXCEPT ![id] = env]
          /\ cTimer' = [cTimer EXCEPT ![id] = "armed"]
          /\ cSend' = [cSend EXCEPT ![id] = "await"]
          /\ cProxy' = [cProxy EXCEPT ![id] = o]
          /\ c2s' = IF o = "true" THEN Append(c2s, env) ELSE c2s
    /\ UNCHANGED <<cResolved, cAttempts, cRecv, cLast>>

\* The timer of a request fires: #resolveRequest(new Response(id, path, 408)).
TimerFire(id) ==
    /\ cTimer[id] = "armed"
    /\ ResolveRequest(ResponseMessage(id, cReq[id].path, 408, Undefined), "timer",
                      [cTimer EXCEPT ![id] = "fired"])
    /\ UNCHANGED <<cNext, cReq, cSend, cProxy, cRecv, cLast, c2s>>

\* The proxy call of Client.send settles: a throw rejects send, false
\* resolves the request with 406, and then send returns the response promise.
ClientProxySettle(id) ==
    /\ cSend[id] = "await"
    /\ IF cProxy[id] = "throw"
       THEN /\ cSend' = [cSend EXCEPT ![id] = "threw"]
            /\ UNCHANGED <<cRequests, cTimer, cResolved, cAttempts>>
       ELSE /\ cSend' = [cSend EXCEPT ![id] = "returned"]
            /\ IF NotAccepted(cProxy[id])
               THEN ResolveRequest(ResponseMessage(id, cReq[id].path, 406, Undefined),
                                   "proxy", cTimer)
               ELSE UNCHANGED <<cRequests, cTimer, cResolved, cAttempts>>
    /\ UNCHANGED <<cNext, cReq, cProxy, cRecv, cLast, c2s>>

\* Client.receive(value).
ClientReceive(v) ==
    /\ IF IsResponse(v)
       THEN /\ ResolveRequest(ResponseMessage(v.id, v.path, v.status, v.body), "receive", cTimer)
            /\ cLast' = [value |-> v, result |-> ClientMatches(cRequests, v)]
       ELSE /\ cLast' = [value |-> v, result |-> FALSE]
            /\ UNCHANGED <<cRequests, cTimer, cResolved, cAttempts>>
    /\ UNCHANGED <<cNext, cReq, cSend, cProxy, c2s>>

\* What Client.send has returned to its caller: the response once the proxy
\* call has settled and the request is resolved, a rejection when the proxy
\* threw.
Outcome(id) ==
    IF cSend[id] = "threw" THEN [status |-> "rejected"]
    ELSE IF cSend[id] = "returned" /\ cResolved[id] # <<>> THEN cResolved[id][1]
    ELSE [status |-> "pending"]

\* Values the environment hands to Client.receive: responses of every status
\* for known and unknown ids, and values that are no response.
StrayValues ==
    {ResponseMessage(id, "/a", 200, "b") : id \in ReqIds \cup {"zz"}}
    \cup {ResponseMessage(id, "/a", 408, Undefined) : id \in ReqIds}
    \cup {[json |-> "true"],
          [__type |-> "response", id |-> "r1", path |-> "/a", body |-> Undefined, status |-> 404]}

\* The environment hands a value to Client.receive.
ClientReceiveStray(v) ==
    /\ cRecv < MaxReceives
    /\ cRecv' = cRecv + 1
    /\ ClientReceive(v)
    /\ FrameClient

ClientSendAny ==
    \E o \in ProxyOutcomes : ClientSend("/a", Undefined, FALSE, o) /\ FrameClient

ClientTimerFire == \E id \in ReqIds : TimerFire(id) /\ FrameClient

ClientSettle == \E id \in ReqIds : ClientProxySettle(id) /\ FrameClient

ClientReceiveAny == \E v \in StrayValues : ClientReceiveStray(v)

NextClient ==
    \/ ClientSendAny
    \/ ClientTimerFire
    \/ ClientSettle
    \/ ClientReceiveAny


(***************************************************************************)
(* The Server: route table and request dispatch.                           *)
(***************************************************************************)
Dispatches == 1..MaxInbound
IdleDispatch ==
    [pc |-> "idle", req |-> NoValue, ctx |-> "A", snap |-> <<>>, i |-> 1, resolved |-> FALSE,
     hres |-> Undefined, herr |-> FALSE, cont |-> "none", ret |-> "pending",
     regd |-> 0, gone |-> {}]

InitServer ==
    /\ routes = [p \in Paths |-> <<>>]
    /\ sUid = 0
    /\ sDisposed = {}
    /\ sCount = 0
    /\ disp = [d \in Dispatches |-> IdleDispatch]
    /\ sResponded = [d \in Dispatches |-> FALSE]
    /\ sDetached = [d \in Dispatches |-> 0]
    /\ sLog = [d \in Dispatches |-> <<>>]
    /\ s2c = [d \in Dispatches |-> <<>>]

\* EventEmitter.listeners(path): a copy of the listeners of the path.
Listeners(path) == IF path \in Paths THEN routes[path] ELSE <<>>

\* Server.route(path, handler, options): the listener is added at the end.
Route(path, filt) ==
    /\ sUid < MaxRoutes
    /\ sUid' = sUid + 1
    /\ routes' = [routes EXCEPT ![path] =
                    ListenerPush(@, [uid |-> sUid + 1, filt |-> filt])]
    /\ UNCHANGED <<sDisposed, sCount, disp, sResponded, sDetached, sLog, s2c>>

\* dispose() of the disposable Server.route returned: guarded by isDisposed,
\* it removes the listener from the path it was registered on.
Dispose(uid) ==
    /\ uid \in 1..sUid
    /\ uid \notin sDisposed
    /\ sDisposed' = sDisposed \cup {uid}
    /\ routes' = [p \in Paths |-> ListenerOff(routes[p], uid)]
    /\ UNCHANGED <<sUid, sCount, disp, sResponded, sDetached, sLog, s2c>>

\* Where a #routeRequest call goes on after a step: "call" after resolve(),
\* "ret" when the handler's promise settles, "next" to the next route, and
\* the three ways Server.receive ends.
After(r, cont) ==
    CASE cont = "call" -> [r EXCEPT !.pc = "call", !.resolved = TRUE, !.cont = "none"]
      [] cont = "ret" -> [r EXCEPT !.pc = "ret", !.cont = "none"]
      [] cont = "next" -> [r EXCEPT !.pc = "loop", !.i = @ + 1, !.hres = Undefined,
                                    !.herr = FALSE, !.cont = "none"]
      [] OTHER -> [r EXCEPT !.pc = "done", !.ret = cont, !.cont = "none"]

\* A loop that reads the route of each turn from the listeners the path has
\* at that moment, as far as there is one at that place.
RouteAtLive(r) ==
    LET live == Listeners(r.req.path)
    IN IF r.i <= Len(live) THEN live[r.i] ELSE r.snap[r.i]

\* for (const route of routes): the route of the current turn, taken from the
\* copy of the listeners made when the dispatch started.
RouteAt(r) == r.snap[r.i]

ProxyEvent(d, i, by, status, body) ==
    [ev |-> "proxy", d |-> d, i |-> i, by |-> by,
     env |-> ResponseMessage(disp[d].req.id, disp[d].req.path, status, body)]

\* await responder.send(status, body) inside #routeRequest or a route
\* listener: with canRespond the proxy is called and the call waits for it,
\* otherwise it goes straight on.  `pre` is what happened just before.
AwaitSend(d, i, by, status, body, cont, pre) ==
    IF CanRespond(sResponded[d])
    THEN /\ disp' = [disp EXCEPT ![d] = [@ EXCEPT !.pc = "send", !.cont = cont]]
         /\ sLog' = [sLog EXCEPT ![d] = Append(pre, ProxyEvent(d, i, by, status, body))]
         /\ s2c' = [s2c EXCEPT ![d] = Append(@, ProxyEvent(d, i, by, status, body).env)]
    ELSE /\ disp' = [disp EXCEPT ![d] = After(@, cont)]
         /\ sLog' = [sLog EXCEPT ![d] = pre]
         /\ s2c' = s2c

\* Server.receive(message, contextProvider) for a value that parses as a
\* request: the responder is created and the listeners of the path are copied.
\* `regd` and `gone` remember how many routes had been registered and which
\* had been disposed when the request was received.
ServerReceiveRequest(v, ctx) ==
    /\ IsRequest(v)
    /\ sCount < MaxInbound
    /\ sCount' = sCount + 1
    /\ disp' = [disp EXCEPT ![sCount + 1] =
                  [IdleDispatch EXCEPT !.pc = "loop", !.req = v, !.ctx = ctx,
                                       !.snap = Listeners(v.path),
                                       !.regd = sUid, !.gone = sDisposed]]
    /\ UNCHANGED <<routes, sUid, sDisposed, sResponded, sDetached, sLog, s2c>>

\* MessageGateway.receive(value) for a value the client does not match and
\* that does not parse as a request: Client.receive and Server.receive both
\* return false.
GatewayReceiveOther(v) ==
    /\ ~ClientMatches({}, v)
    /\ ~IsRequest(v)
    /\ sCount < MaxInbound
    /\ sCount' = sCount + 1
    /\ disp' = [disp EXCEPT ![sCount + 1] =
                  [IdleDispatch EXCEPT !.pc = "done", !.req = v, !.ret = "false"]]
    /\ UNCHANGED <<routes, sUid, sDisposed, sResponded, sDetached, sLog, s2c>>

\* One turn of the loop of #routeRequest: the listener of route i applies its
\* filter and calls resolve(), which sends the 202 of a unidirectional
\* request; after the last route the fallback 200 or the 501 is sent.
LoopStep(d) ==
    /\ disp[d].pc = "loop"
    /\ LET r == disp[d]
       IN IF r.i > Len(r.snap)
          THEN AwaitSend(d, 0, "server", TailStatus(r.resolved), Undefined,
                         IF r.resolved THEN "true" ELSE "false", sLog[d])
          ELSE LET pass == FilterPass(RouteAt(r), r.ctx)
                   pre == Append(sLog[d], [ev |-> "filter", d |-> d, i |-> r.i, pass |-> pass])
               IN IF ~pass
                  THEN /\ disp' = [disp EXCEPT ![d] = After(r, "next")]
                       /\ sLog' = [sLog EXCEPT ![d] = pre]
                       /\ s2c' = s2c
                  ELSE IF r.req.unidirectional
                       THEN AwaitSend(d, r.i, "server", 202, Undefined, "call", pre)
                       ELSE /\ disp' = [disp EXCEPT ![d] = After(r, "call")]
                            /\ sLog' = [sLog EXCEPT ![d] = pre]
                            /\ s2c' = s2c
    /\ UNCHANGED <<routes, sUid, sDisposed, sCount, sResponded, sDetached>>

\* The listener invokes the handler: its synchronous part runs.
HandlerCall(d, kind) ==
    /\ disp[d].pc = "call"
    /\ LET r == disp[d]
           uid == RouteAt(r).uid
           body == BodySeq[uid]
           pre == Append(sLog[d], [ev |-> "start", d |-> d, i |-> r.i, uid |-> uid, kind |-> kind])
       IN CASE kind = "successAwait" ->
                 /\ AwaitSend(d, r.i, "handler", 200, body, "ret", pre)
                 /\ UNCHANGED sDetached
            [] kind = "success" ->
                 /\ disp' = [disp EXCEPT ![d] = After(r, "ret")]
                 /\ IF CanRespond(sResponded[d])
                    THEN /\ sLog' = [sLog EXCEPT ![d] = Append(pre, ProxyEvent(d, r.i, "handler", 200, body))]
                         /\ s2c' = [s2c EXCEPT ![d] = Append(@, ProxyEvent(d, r.i, "handler", 200, body).env)]
                         /\ sDetached' = [sDetached EXCEPT ![d] = @ + 1]
                    ELSE /\ sLog' = [sLog EXCEPT ![d] = pre]
                         /\ UNCHANGED <<s2c, sDetached>>
            [] OTHER ->
                 /\ disp' = [disp EXCEPT ![d] =
                               [After(r, "ret") EXCEPT !.hres = IF kind = "ret" THEN body ELSE Undefined,
                                                       !.herr = (kind = "throw")]]
                 /\ sLog' = [sLog EXCEPT ![d] = pre]
                 /\ UNCHANGED <<s2c, sDetached>>
    /\ UNCHANGED <<routes, sUid, sDisposed, sCount, sResponded>>

\* await handler(..) resumes: a result other than undefined is sent with 200,
\* an error is answered with 500 and thrown on.
HandlerSettle(d) ==
    /\ disp[d].pc = "ret"
    /\ LET r == disp[d]
           pre == Append(sLog[d], [ev |-> "settle", d |-> d, i |-> r.i])
       IN IF r.herr
          THEN AwaitSend(d, r.i, "server", 500, Undefined, "threw", pre)
          ELSE IF r.hres # Undefined
               THEN AwaitSend(d, r.i, "server", 200, r.hres, "next", pre)
               ELSE /\ disp' = [disp EXCEPT ![d] = After(r, "next")]
                    /\ sLog' = [sLog EXCEPT ![d] = pre]
                    /\ s2c' = s2c
    /\ UNCHANGED <<routes, sUid, sDisposed, sCount, sResponded, sDetached>>

\* The proxy call of an awaited send settles: #responded = true.
SendSettle(d) ==
    /\ disp[d].pc = "send"
    /\ sResponded' = [sResponded EXCEPT ![d] = TRUE]
    /\ disp' = [disp EXCEPT ![d] = After(@, @.cont)]
    /\ sLog' = [sLog EXCEPT ![d] = Append(@, [ev |-> "acked", d |-> d, i |-> disp[d].i])]
    /\ UNCHANGED <<routes, sUid, sDisposed, sCount, sDetached, s2c>>

\* The proxy call of a send nobody awaited settles: #responded = true.
DetachedSettle(d) ==
    /\ sDetached[d] > 0
    /\ sDetached' = [sDetached EXCEPT ![d] = @ - 1]
    /\ sResponded' = [sResponded EXCEPT ![d] = TRUE]
    /\ UNCHANGED <<routes, sUid, sDisposed, sCount, disp, sLog, s2c>>

\* Values received that are neither a request nor a response.
UnknownValues ==
    {[json |-> "true"],
     [__type |-> "request", id |-> "r1", path |-> "/a", body |-> Undefined],
     [__type |-> "req", id |-> "r1", path |-> "/a", body |-> Undefined,
      unidirectional |-> FALSE],
     [__type |-> "response", id |-> "r1", path |-> "/a", body |-> Undefined, status |-> 404]}

SrvRoute ==
    \E p \in Paths, f \in Filters :
        Route(p, f) /\ FrameServer

SrvDispose == \E uid \in 1..MaxRoutes : Dispose(uid) /\ FrameServer

\* The requests a peer sends: the next id, any path, either direction.
InboundRequests ==
    {RequestMessage(IdSeq[sCount + 1], p, Undefined, u) : p \in Paths, u \in BOOLEAN}

SrvReceiveRequest ==
    \E v \in InboundRequests \cup UnknownValues, ctx \in Contexts :
        /\ ServerReceiveRequest(v, ctx)
        /\ FrameServer

SrvReceiveOther ==
    \E v \in UnknownValues \cup {ResponseMessage("r1", "/a", 200, "b")} :
        GatewayReceiveOther(v) /\ FrameServer

SrvLoopStep == \E d \in Dispatches : LoopStep(d) /\ FrameServer

SrvHandlerCall == \E d \in Dispatches, k \in HandlerKinds : HandlerCall(d, k) /\ FrameServer

SrvHandlerSettle == \E d \in Dispatches : HandlerSettle(d) /\ FrameServer

SrvSendSettle == \E d \in Dispatches : SendSettle(d) /\ FrameServer

SrvDetachedSettle == \E d \in Dispatches : DetachedSettle(d) /\ FrameServer

NextServer ==
    \/ SrvRoute
    \/ SrvDispose
    \/ SrvReceiveRequest
    \/ SrvReceiveOther
    \/ SrvLoopStep
    \/ SrvHandlerCall
    \/ SrvHandlerSettle
    \/ SrvSendSettle
    \/ SrvDetachedSettle

(***************************************************************************)
(* The JSON-RPC RpcServer: method table and handler chain.                 *)
(***************************************************************************)
\* JsonRpcErrorCode.
MethodNotFound == -32601
InternalError == -32603

\* JSON null.
Null == "null"

MethodNames == {"m", "n"}
\* The functions a caller registers as handlers.
Functions == {"f", "g"}

\* The JSON-RPC request envelope.
JsonRpcRequest(id, method) == [jsonrpc |-> "2.0", id |-> id, method |-> method]

\* JsonRpcRequest.safeParse: jsonrpc is "2.0", method a string, id a string
\* when present (Undefined stands for an absent id).
IsRpcRequest(v) ==
    /\ {"jsonrpc", "method", "id"} \subseteq DOMAIN v
    /\ v.jsonrpc = "2.0"
    /\ v.method \in MethodNames \cup {"zz"}
    /\ v.id \in JsonStrings \cup {"", Undefined}

\* What a handler may throw: an Error with a message, an object that is no
\* Error, or a primitive.
Thrown ==
    {[type |-> "Error", message |-> "boom", str |-> "Error: boom"],
     [type |-> "Object", message |-> Undefined, str |-> "[object Object]"],
     [type |-> "primitive", message |-> Undefined, str |-> "oops"]}

\* Nothing was thrown.
NoError == [type |-> "none", message |-> Undefined, str |-> Undefined]

\* An error message that ignores what was thrown.
ErrMessageUnknown(err) == "Unknown error"

\* RpcServer.#invoke: the message of the InternalError response.
ErrMessage(err) ==
    IF err.type = "Error" THEN err.message
    ELSE IF err.type = "Object" THEN err.str
    ELSE "Unknown error"

\* `result ?? null`.
Nullish(result) == IF result = Undefined \/ result = Null THEN Null ELSE result

\* EventEmitter.off(name, listener): every entry whose listener is the
\* function is removed.
ListenerOffFn(listeners, reg) == SelectSeq(listeners, LAMBDA x : x.fn # reg.fn)

\* What a method handler may do when it is invoked.  "ret" returns a value,
\* "void" returns undefined, "next" returns next(), "nextOwn" awaits next()
\* and returns a value of its own, "throw" throws an Error, "throwValue"
\* throws something else, "respond" starts
\* responder.success(b) without awaiting it and returns undefined, "error"
\* starts responder.error(e) without awaiting it and returns undefined,
\* "errorThrow" starts responder.error(e) and then throws an Error.
MethodKinds ==
    {"ret", "void", "next", "nextOwn", "throw", "throwValue", "respond", "error", "errorThrow"}

\* The error a handler answers with on its own.
HandlerError == [code |-> 123, message |-> "Something went wrong"]

RpcDispatches == 1..MaxRpcInbound
IdleRpcDispatch ==
    [pc |-> "idle", req |-> NoValue, snap |-> <<>>, k |-> 1, result |-> Undefined,
     own |-> Undefined, err |-> NoError, cont |-> "none", ret |-> "pending"]

InitRpcServer ==
    /\ jMethods = [n \in MethodNames |-> <<>>]
    /\ jHandles = <<>>
    /\ jCount = 0
    /\ jDisp = [d \in RpcDispatches |-> IdleRpcDispatch]
    /\ jResponded = [d \in RpcDispatches |-> FALSE]
    /\ jDetached = [d \in RpcDispatches |-> 0]
    /\ jLog = [d \in RpcDispatches |-> <<>>]

\* RpcServer.addMethod(name, handler): disposableOn pushes the handler.
AddMethod(name, fn) ==
    /\ Len(jHandles) < MaxMethods
    /\ jMethods' = [jMethods EXCEPT ![name] =
                       ListenerPush(@, [uid |-> Len(jHandles) + 1, fn |-> fn])]
    /\ jHandles' = Append(jHandles, [name |-> name, fn |-> fn, disposed |-> FALSE])
    /\ UNCHANGED <<jCount, jDisp, jResponded, jDetached, jLog>>

\* dispose() of the disposable addMethod returned: guarded by isDisposed, it
\* calls removeListener(name, handler).
DisposeMethod(uid) ==
    /\ uid \in 1..Len(jHandles)
    /\ ~jHandles[uid].disposed
    /\ jHandles' = [jHandles EXCEPT ![uid].disposed = TRUE]
    /\ jMethods' = [jMethods EXCEPT ![jHandles[uid].name] =
                       ListenerOffFn(@, [uid |-> uid, fn |-> jHandles[uid].fn])]
    /\ UNCHANGED <<jCount, jDisp, jResponded, jDetached, jLog>>

\* The envelope a responder call for the request with this id hands to the
\* sender.
RpcProxyEvent(id, by, method, payload) ==
    [ev |-> "proxy", by |-> by,
     env |-> IF method = "success" THEN RpcResultMessage(id, payload)
                                   ELSE RpcErrorMessage(id, payload)]

\* await responder.success(payload) / responder.error(payload) inside
\* RpcServer: when #trySend is reached and passes its guard the sender is
\* called and the call waits for it, otherwise receive goes straight on.
RpcAwaitSend(d, method, payload, cont, r) ==
    IF RpcWillSend(method, r.req.id, jResponded[d])
    THEN /\ jDisp' = [jDisp EXCEPT ![d] = [r EXCEPT !.pc = "send", !.cont = cont]]
         /\ jLog' = [jLog EXCEPT ![d] = Append(@, RpcProxyEvent(r.req.id, "server", method, payload))]
    ELSE /\ jDisp' = [jDisp EXCEPT ![d] = [r EXCEPT !.pc = "done", !.ret = cont]]
         /\ jLog' = jLog

\* RpcServer.receive(value) for a value that parses as a request: the
\* responder is created and the handlers of the method are copied; without
\* handlers the MethodNotFound error is sent.
RpcReceiveRequest(v) ==
    /\ IsRpcRequest(v)
    /\ jCount < MaxRpcInbound
    /\ jCount' = jCount + 1
    /\ LET d == jCount + 1
           snap == IF v.method \in MethodNames THEN jMethods[v.method] ELSE <<>>
           r == [IdleRpcDispatch EXCEPT !.req = v, !.snap = snap]
       IN IF snap = <<>>
          THEN RpcAwaitSend(d, "error",
                            [code |-> MethodNotFound,
                             message |-> "The method does not exist or is not available."],
                            "false", r)
          ELSE /\ jDisp' = [jDisp EXCEPT ![d] = [r EXCEPT !.pc = "chain"]]
               /\ jLog' = jLog
    /\ UNCHANGED <<jMethods, jHandles, jResponded, jDetached>>

\* RpcServer.receive(value) for a value that does not parse as a request.
RpcReceiveOther(v) ==
    /\ ~IsRpcRequest(v)
    /\ jCount < MaxRpcInbound
    /\ jCount' = jCount + 1
    /\ jDisp' = [jDisp EXCEPT ![jCount + 1] =
                    [IdleRpcDispatch EXCEPT !.pc = "done", !.req = v, !.ret = "false"]]
    /\ UNCHANGED <<jMethods, jHandles, jResponded, jDetached, jLog>>

\* The handler at position k of the chain is invoked, by #invoke or by the
\* next() of the handler before it; next() without a handler left is null.
MethodCall(d, kind, err) ==
    /\ jDisp[d].pc = "chain"
    /\ LET r == jDisp[d]
           reg == r.snap[r.k]
           id == r.req.id
           start == [ev |-> "start", k |-> r.k, uid |-> reg.uid, fn |-> reg.fn, kind |-> kind]
           call == IF kind = "respond" THEN "success"
                   ELSE IF kind \in {"error", "errorThrow"} THEN "error" ELSE "none"
           sends == call # "none" /\ RpcWillSend(call, id, jResponded[d])
       IN /\ jDisp' = [jDisp EXCEPT ![d] =
               CASE kind = "ret" -> [r EXCEPT !.pc = "settle", !.result = BodySeq[reg.uid]]
                 [] kind = "next" -> IF r.k < Len(r.snap)
                                     THEN [r EXCEPT !.k = @ + 1]
                                     ELSE [r EXCEPT !.pc = "settle", !.result = Null]
                 [] kind = "nextOwn" ->
                       LET own == IF r.own = Undefined THEN BodySeq[reg.uid] ELSE r.own
                       IN IF r.k < Len(r.snap)
                          THEN [r EXCEPT !.k = @ + 1, !.own = own]
                          ELSE [r EXCEPT !.pc = "settle", !.result = Null, !.own = own]
                 [] kind \in {"throw", "throwValue", "errorThrow"} ->
                       [r EXCEPT !.pc = "settle", !.err = err]
                 [] OTHER -> [r EXCEPT !.pc = "settle", !.result = Undefined]]
          /\ jLog' = [jLog EXCEPT ![d] =
               IF sends
               THEN Append(Append(@, start),
                           RpcProxyEvent(id, "handler", call,
                                         IF call = "success" THEN BodySeq[reg.uid]
                                                             ELSE HandlerError))
               ELSE Append(@, start)]
          /\ jDetached' = [jDetached EXCEPT ![d] = IF sends THEN @ + 1 ELSE @]
    /\ (kind \in {"throw", "errorThrow"}) => err.type = "Error"
    /\ (kind = "throwValue") => err.type \in {"Object", "primitive"}
    /\ (kind \notin {"throw", "throwValue", "errorThrow"}) => err = NoError
    /\ UNCHANGED <<jMethods, jHandles, jCount, jResponded>>

\* `await next(methods)()` resumes in #invoke: the result (or null) is sent
\* with responder.success, an error is answered with InternalError and
\* thrown on.
ChainSettle(d) ==
    /\ jDisp[d].pc = "settle"
    /\ LET r == jDisp[d]
       IN IF r.err # NoError
          THEN RpcAwaitSend(d, "error",
                            [code |-> InternalError, message |-> ErrMessage(r.err)],
                            "threw", r)
          ELSE RpcAwaitSend(d, "success",
                            Nullish(IF r.own # Undefined THEN r.own ELSE r.result), "true", r)
    /\ UNCHANGED <<jMethods, jHandles, jCount, jResponded, jDetached>>

\* The sender call of an awaited responder call settles: #responded = true.
RpcSendSettle(d) ==
    /\ jDisp[d].pc = "send"
    /\ jResponded' = [jResponded EXCEPT ![d] = TRUE]
    /\ jDisp' = [jDisp EXCEPT ![d] = [@ EXCEPT !.pc = "done", !.ret = jDisp[d].cont]]
    /\ jLog' = [jLog EXCEPT ![d] = Append(@, [ev |-> "acked"])]
    /\ UNCHANGED <<jMethods, jHandles, jCount, jDetached>>

\* The sender call of a responder call nobody awaited settles.
RpcDetachedSettle(d) ==
    /\ jDetached[d] > 0
    /\ jDetached' = [jDetached EXCEPT ![d] = @ - 1]
    /\ jResponded' = [jResponded EXCEPT ![d] = TRUE]
    /\ UNCHANGED <<jMethods, jHandles, jCount, jDisp, jLog>>

\* Values RpcServer.receive is called with that are no JSON-RPC request.
RpcUnknownValues ==
    {[json |-> "true"],
     [jsonrpc |-> "1.0", id |-> "r1", method |-> "m"],
     RpcResultMessage("r1", "b")}

RpcRequests ==
    {JsonRpcRequest(id, n) : id \in {"r1", "", Undefined}, n \in {"m"}}

JAddMethod == \E n \in MethodNames, fn \in Functions : AddMethod(n, fn) /\ FrameRpcServer

JDispose == \E uid \in 1..MaxMethods : DisposeMethod(uid) /\ FrameRpcServer

JReceiveRequest == \E v \in RpcRequests \cup RpcUnknownValues : RpcReceiveRequest(v) /\ FrameRpcServer

JReceiveOther == \E v \in RpcUnknownValues : RpcReceiveOther(v) /\ FrameRpcServer

JMethodCall ==
    \E d \in RpcDispatches, kind \in MethodKinds, err \in Thrown \cup {NoError} :
        MethodCall(d, kind, err) /\ FrameRpcServer

JChainSettle == \E d \in RpcDispatches : ChainSettle(d) /\ FrameRpcServer

JSendSettle == \E d \in RpcDispatches : RpcSendSettle(d) /\ FrameRpcServer

JDetachedSettle == \E d \in RpcDispatches : RpcDetachedSettle(d) /\ FrameRpcServer

NextRpcServer ==
    \/ JAddMethod
    \/ JDispose
    \/ JReceiveRequest
    \/ JReceiveOther
    \/ JMethodCall
    \/ JChainSettle
    \/ JSendSettle
    \/ JDetachedSettle

(***************************************************************************)
(* MessageGateway.receive: one gateway with its Client and its Server.     *)
(***************************************************************************)
InitGateway ==
    /\ gPc = "idle"
    /\ gLog = <<>>

\* A gateway that hands every value to its server.
OfferToServerAlways(consumed) == TRUE

\* MessageGateway.receive: `if (await this.#client.receive(message)) return
\* true`, the server is tried when the client returned false.
OfferToServer(consumed) == ~consumed

\* MessageGateway.receive(message, contextProvider) up to the return of
\* Client.receive(message).
GatewayReceive(v) ==
    /\ gPc = "idle"
    /\ Len(gLog) < MaxGatewayReceives
    /\ sCount < MaxInbound
    /\ ClientReceive(v)
    /\ cRecv' = cRecv
    /\ LET consumed == ClientMatches(cRequests, v)
       IN /\ gLog' = Append(gLog, [value |-> v, calls |-> <<"client">>, client |-> consumed,
                                   d |-> 0,
                                   result |-> IF OfferToServer(consumed) THEN "pending"
                                                                         ELSE "true"])
          /\ gPc' = IF OfferToServer(consumed) THEN "offer" ELSE "idle"
    /\ UNCHANGED <<utilVars, respVars, serverVars, rpcServerVars, rpcClientVars>>

\* MessageGateway.receive goes on with this.#server.receive(message,
\* contextProvider).
GatewayOffer(ctx) ==
    /\ gPc = "offer"
    /\ LET v == gLog[Len(gLog)].value
       IN IF IsRequest(v) THEN ServerReceiveRequest(v, ctx) ELSE GatewayReceiveOther(v)
    /\ gLog' = [gLog EXCEPT ![Len(gLog)] =
                  [@ EXCEPT !.calls = Append(@, "server"), !.d = sCount + 1]]
    /\ gPc' = "wait"
    /\ UNCHANGED <<utilVars, respVars, clientVars, rpcServerVars, rpcClientVars>>

\* Server.receive has settled and MessageGateway.receive returns what it
\* returned, or rejects with what it threw.
GatewayReturn ==
    /\ gPc = "wait"
    /\ disp[gLog[Len(gLog)].d].pc = "done"
    /\ gLog' = [gLog EXCEPT ![Len(gLog)] =
                  [@ EXCEPT !.result = disp[gLog[Len(gLog)].d].ret]]
    /\ gPc' = "idle"
    /\ UNCHANGED <<utilVars, respVars, clientVars, serverVars, rpcServerVars, rpcClientVars>>

\* Values a gateway receives: responses for ids it may have sent, requests,
\* and values that are neither.
GatewayValues ==
    {ResponseMessage(id, "/a", 200, "b") : id \in ReqIds \cup {"zz"}}
    \cup {RequestMessage("zz", "/a", Undefined, FALSE)}
    \cup {[json |-> "true"]}

GwReceive == \E v \in GatewayValues : GatewayReceive(v)

GwOffer == \E ctx \in Contexts : GatewayOffer(ctx)

GwReturn == GatewayReturn

NextGateway ==
    \/ SrvRoute
    \/ ClientSendAny
    \/ ClientSettle
    \/ GwReceive
    \/ GwOffer
    \/ GwReturn
    \/ SrvLoopStep
    \/ SrvHandlerCall
    \/ SrvHandlerSettle
    \/ SrvSendSettle
    \/ SrvDetachedSettle

(***************************************************************************)
(* RpcClient.                                                               *)
(***************************************************************************)
RpcReqIds == {IdSeq[n] : n \in 1..MaxRpcRequests}

\* The two RpcClient classes: the one that emits 'unidentifiedResponse' and
\* the later one that calls options.error.
Variants == {"event", "callback"}

InitRpcClientAs(variant) ==
    /\ qVariant = variant
    /\ qNext = 0
    /\ qRequests = {}
    /\ qTimer = [id \in RpcReqIds |-> "none"]
    /\ qSend = [id \in RpcReqIds |-> "new"]
    /\ qProxy = [id \in RpcReqIds |-> "none"]
    /\ qResolved = [id \in RpcReqIds |-> <<>>]
    /\ qSurfaced = <<>>
    /\ qRecv = 0
    /\ qLast = [value |-> NoValue, result |-> FALSE]
    /\ qOut = <<>>
    /\ qNotes = <<>>

InitRpcClient == InitRpcClientAs("event")

\* RpcResponse: what a request promise is resolved with.
RpcOk(result) == [ok |-> TRUE, result |-> result]
RpcFail(error) == [ok |-> FALSE, error |-> error]

\* JsonRpcError: a code that is a number and a message that is a string.
IsRpcError(e) ==
    /\ DOMAIN e = {"code", "message"}
    /\ e.code \in Int
    /\ e.message \in STRING

\* JsonRpcResponse.safeParse: a success response (jsonrpc "2.0", a result, an
\* id that is a string) or an error response (jsonrpc "2.0", an error, an id
\* that is a string when present); Undefined stands for an absent id.
IsRpcResponse(v) ==
    /\ "jsonrpc" \in DOMAIN v
    /\ v.jsonrpc = "2.0"
    /\ \/ /\ DOMAIN v = {"jsonrpc", "id", "result"}
          /\ v.id \in JsonStrings \cup {""}
       \/ /\ DOMAIN v = {"jsonrpc", "id", "error"}
          /\ v.id \in JsonStrings \cup {"", Undefined}
          /\ IsRpcError(v.error)

\* RpcClient.receive: the RpcResponse made of a parsed response.
ResponseOf(v) ==
    IF "result" \in DOMAIN v THEN RpcOk(v.result) ELSE RpcFail(v.error)

\* RpcClient.receive: false when the value does not parse, true otherwise.
Received(parsed, pending) == parsed

\* A client that keeps a response without id to itself.
SurfaceNothing(variant, v) == <<>>

\* What RpcClient.receive surfaces for a parsed response without id:
\* emit("unidentifiedResponse", response) in #resolve, options.error(err) in
\* the later class.
Surface(variant, v) ==
    IF v.id # Undefined THEN <<>>
    ELSE <<[via |-> IF variant = "event" THEN "unidentifiedResponse" ELSE "options.error",
            response |-> ResponseOf(v)]>>

\* RpcClient.#resolve(id, response) for an id that is a string, with the
\* response handler it invokes: clearTimeout and resolve.
RpcResolve(id, response, timers) ==
    LET found == id \in qRequests
    IN /\ qRequests' = qRequests \ {id}
       /\ qResolved' = IF found THEN [qResolved EXCEPT ![id] = Append(@, response)]
                                ELSE qResolved
       /\ qTimer' = IF found /\ timers[id] = "armed"
                    THEN [timers EXCEPT ![id] = "cleared"]
                    ELSE timers

\* RpcClient.request -> #send up to the await of the proxy: the handler is
\* registered, the timer armed and the proxy called.
RpcSend(o) ==
    /\ qNext < MaxRpcRequests
    /\ LET id == IdSeq[qNext + 1]
       IN /\ qNext' = qNext + 1
          /\ qRequests' = qRequests \cup {id}
          /\ qTimer' = [qTimer EXCEPT ![id] = "armed"]
          /\ qSend' = [qSend EXCEPT ![id] = "await"]
          /\ qProxy' = [qProxy EXCEPT ![id] = o]
          /\ qOut' = Append(qOut, JsonRpcRequest(id, "m"))
    /\ UNCHANGED <<qVariant, qResolved, qSurfaced, qRecv, qLast, qNotes>>

\* The timer of a request fires: #resolve(id, "The request timed out.").
RpcTimerFire(id) ==
    /\ qTimer[id] = "armed"
    /\ RpcResolve(id, RpcFail([code |-> InternalError, message |-> "The request timed out."]),
                  [qTimer EXCEPT ![id] = "fired"])
    /\ UNCHANGED <<qVariant, qNext, qSend, qProxy, qSurfaced, qRecv, qLast, qOut, qNotes>>

\* The proxy call of #send settles: a throw rejects the request; the first
\* class resolves the request with "Failed to send request." when the proxy
\* did not accept it, the later class does not look at what the sender
\* returned.
RpcProxySettle(id) ==
    /\ qSend[id] = "await"
    /\ IF qProxy[id] = "throw"
       THEN /\ qSend' = [qSend EXCEPT ![id] = "threw"]
            /\ UNCHANGED <<qRequests, qTimer, qResolved>>
       ELSE /\ qSend' = [qSend EXCEPT ![id] = "returned"]
            /\ IF qVariant = "event" /\ NotAccepted(qProxy[id])
               THEN RpcResolve(id, RpcFail([code |-> InternalError,
                                            message |-> "Failed to send request."]), qTimer)
               ELSE UNCHANGED <<qRequests, qTimer, qResolved>>
    /\ UNCHANGED <<qVariant, qNext, qProxy, qSurfaced, qRecv, qLast, qOut, qNotes>>

\* RpcClient.receive(value).
RpcClientReceive(v) ==
    /\ qRecv < MaxRpcReceives
    /\ qRecv' = qRecv + 1
    /\ IF IsRpcResponse(v)
       THEN /\ qLast' = [value |-> v, result |-> Received(TRUE, v.id \in qRequests)]
            /\ qSurfaced' = qSurfaced \o Surface(qVariant, v)
            /\ IF v.id = Undefined
               THEN UNCHANGED <<qRequests, qTimer, qResolved>>
               ELSE RpcResolve(v.id, ResponseOf(v), qTimer)
       ELSE /\ qLast' = [value |-> v, result |-> Received(FALSE, FALSE)]
            /\ UNCHANGED <<qRequests, qTimer, qResolved, qSurfaced>>
    /\ UNCHANGED <<qVariant, qNext, qSend, qProxy, qOut, qNotes>>

\* RpcClient.notify: the envelope has jsonrpc, method and params, and no id.
Notification(method) == JsonRpcRequest(Undefined, method)

\* A notify that fails when the proxy did not accept the notification.
NotifyEndsAccepted(o) == IF o = "true" THEN "resolved" ELSE "rejected"

\* RpcClient.notify after `await this.#proxy(..)`: the value the proxy
\* resolved to is not looked at; a proxy that throws rejects the call.
NotifyEnds(o) == IF o = "throw" THEN "rejected" ELSE "resolved"

\* RpcClient.notify(method, params) up to the await of the proxy.
RpcNotify(method, o) ==
    /\ Len(qNotes) < MaxNotifies
    /\ qOut' = Append(qOut, Notification(method))
    /\ qNotes' = Append(qNotes, [proxy |-> o, state |-> "await"])
    /\ UNCHANGED <<qVariant, qNext, qRequests, qTimer, qSend, qProxy, qResolved,
                   qSurfaced, qRecv, qLast>>

\* The proxy call of a notify settles and the notify call ends.
RpcNotifySettle(n) ==
    /\ n \in 1..Len(qNotes)
    /\ qNotes[n].state = "await"
    /\ qNotes' = [qNotes EXCEPT ![n] = [@ EXCEPT !.state = NotifyEnds(qNotes[n].proxy)]]
    /\ UNCHANGED <<qVariant, qNext, qRequests, qTimer, qSend, qProxy, qResolved,
                   qSurfaced, qRecv, qLast, qOut>>

\* Values the environment hands to RpcClient.receive: success and error
\* responses for known and unknown ids, error responses without id, and
\* values that are no response.
RpcErrors == {[code |-> 1, message |-> "Something went wrong"]}

RpcClientValues ==
    {RpcResultMessage(id, "b") : id \in RpcReqIds \cup {"zz"}}
    \cup {RpcErrorMessage(id, e) : id \in RpcReqIds \cup {"zz", Undefined}, e \in RpcErrors}
    \cup {[json |-> "foo"],
          [jsonrpc |-> "1.0", id |-> "r1", result |-> "b"],
          [jsonrpc |-> "2.0", id |-> "r1", error |-> [code |-> 1]],
          JsonRpcRequest("r1", "m")}

QSend == \E o \in ProxyOutcomes : RpcSend(o) /\ FrameRpcClient

QTimerFire == \E id \in RpcReqIds : RpcTimerFire(id) /\ FrameRpcClient

QProxySettle == \E id \in RpcReqIds : RpcProxySettle(id) /\ FrameRpcClient

QReceive == \E v \in RpcClientValues : RpcClientReceive(v) /\ FrameRpcClient

QNotify == \E o \in ProxyOutcomes : RpcNotify("m", o) /\ FrameRpcClient

QNotifySettle == \E n \in 1..MaxNotifies : RpcNotifySettle(n) /\ FrameRpcClient

NextRpcClient ==
    \/ QSend
    \/ QTimerFire
    \/ QProxySettle
    \/ QReceive

\* An RpcClient that sends requests and notifications.
NextRpcNotify ==
    \/ QSend
    \/ QProxySettle
    \/ QNotify
    \/ QNotifySettle

(***************************************************************************)
(* Client.send called with Request objects: an object keeps the id it got  *)
(* when it was constructed, and the pool is keyed by that id.              *)
(***************************************************************************)
ObjIds == {IdSeq[n] : n \in 1..MaxObjects}

InitPool ==
    /\ pObjs = 0
    /\ pCalls = <<>>
    /\ pPool = [id \in ObjIds |-> 0]

\* Client.send: this.#requests.set(id, handler).
PoolSet(pool, id, k) == [pool EXCEPT ![id] = k]

\* Client.#resolveRequest(new Response(id, .., status)) with the handler it
\* finds: the handler clears the timer of its own call unless the status is
\* 408 and resolves the promise of its own call.  `calls` is pCalls after
\* what the caller has done to it.
PoolResolve(id, status, calls) ==
    LET h == pPool[id]
    IN /\ pPool' = [pPool EXCEPT ![id] = 0]
       /\ pCalls' = IF h = 0 THEN calls
                    ELSE [calls EXCEPT ![h] =
                            [@ EXCEPT !.promise = Append(calls[h].promise, status),
                                      !.timer = IF ClearsTimeout(status) /\ calls[h].timer = "armed"
                                                THEN "cleared" ELSE calls[h].timer]]

\* Client.send(request) up to the await of the proxy, for the n-th Request
\* object constructed: a new object when n = pObjs + 1 (what Gateway.send
\* always passes), an object constructed before otherwise.
PoolSend(n, o) ==
    /\ n \in 1..(pObjs + 1)
    /\ n <= MaxObjects
    /\ Len(pCalls) < MaxSendCalls
    /\ pObjs' = IF n = pObjs + 1 THEN n ELSE pObjs
    /\ pCalls' = Append(pCalls, [id |-> IdSeq[n], proxy |-> o, state |-> "await",
                                 timer |-> "armed", promise |-> <<>>,
                                 over |-> pPool[IdSeq[n]]])
    /\ pPool' = PoolSet(pPool, IdSeq[n], Len(pCalls) + 1)

\* The proxy call of a Client.send settles: `if (!accepted)
\* this.#resolveRequest(new Response(id, path, 406, undefined))`.
PoolProxySettle(k) ==
    /\ k \in 1..Len(pCalls)
    /\ pCalls[k].state = "await"
    /\ LET calls == [pCalls EXCEPT ![k] = [@ EXCEPT !.state = "returned"]]
       IN IF NotAccepted(pCalls[k].proxy)
          THEN PoolResolve(pCalls[k].id, 406, calls)
          ELSE pCalls' = calls /\ pPool' = pPool
    /\ UNCHANGED pObjs

\* The timer of a Client.send call fires:
\* this.#resolveRequest(new Response(id, path, 408, undefined)).
PoolTimerFire(k) ==
    /\ k \in 1..Len(pCalls)
    /\ pCalls[k].timer = "armed"
    /\ PoolResolve(pCalls[k].id, 408, [pCalls EXCEPT ![k] = [@ EXCEPT !.timer = "fired"]])
    /\ UNCHANGED pObjs

\* Client.receive with a response of status 200 for an id.
PoolReceive(id) ==
    /\ \E k \in 1..Len(pCalls) : pCalls[k].id = id
    /\ PoolResolve(id, 200, pCalls)
    /\ UNCHANGED pObjs

USend == \E n \in 1..MaxObjects, o \in {"true", "false"} : PoolSend(n, o) /\ FramePool

USettle == \E k \in 1..MaxSendCalls : PoolProxySettle(k) /\ FramePool

UTimerFire == \E k \in 1..MaxSendCalls : PoolTimerFire(k) /\ FramePool

UReceive == \E id \in ObjIds : PoolReceive(id) /\ FramePool

NextPool ==
    \/ USend
    \/ USettle
    \/ UTimerFire
    \/ UReceive

(***************************************************************************)
(* DisposableStack.                                                        *)
(***************************************************************************)

\* Resources given to the stack; the dispose callback of "x" throws.
Resources == {"a", "b", "x"}
DisposeThrows(res) == res = "x"

AlreadyDisposed == "Cannot add disposable resource to stack as the stack is already disposed."

\* A stack that accepts resources whatever its state.
CanStackAlways(disposed) == TRUE

\* The guard of use, adopt and defer: `if (this.disposed) throw ..`.
CanStack(disposed) == ~disposed

InitStack ==
    /\ dStack = <<>>
    /\ dDisposed = FALSE
    /\ dRegs = <<>>
    /\ dGuard = <<>>
    /\ dInv = <<>>
    /\ dLast = [n |-> 0, op |-> "new", outcome |-> "ok"]

\* use(value), and adopt / defer, which wrap the callback in a
\* deferredDisposable and pass it to use.
StackAdd(via, res) ==
    /\ dLast.n < MaxStackCalls
    /\ IF CanStack(dDisposed)
       THEN /\ dStack' = Append(dStack, Len(dRegs) + 1)
            /\ dRegs' = Append(dRegs, [res |-> res, via |-> via])
            /\ dGuard' = Append(dGuard, FALSE)
            /\ dInv' = Append(dInv, 0)
            /\ dLast' = [n |-> dLast.n + 1, op |-> via, outcome |-> "ok"]
       ELSE /\ dLast' = [n |-> dLast.n + 1, op |-> via, outcome |-> AlreadyDisposed]
            /\ UNCHANGED <<dStack, dRegs, dGuard, dInv>>
    /\ UNCHANGED dDisposed

\* The loop of dispose: pop, call dispose() of what was popped, until the
\* stack is empty or a callback throws.  A deferredDisposable calls its
\* callback when isDisposed is false and sets isDisposed after the callback
\* returned.
RECURSIVE DisposeRun(_, _, _)
DisposeRun(stack, guard, inv) ==
    IF stack = <<>>
    THEN [stack |-> stack, guard |-> guard, inv |-> inv, threw |-> FALSE]
    ELSE LET i == stack[Len(stack)]
             rest == SubSeq(stack, 1, Len(stack) - 1)
             calls == dRegs[i].via = "use" \/ ~guard[i]
             inv2 == IF calls THEN [inv EXCEPT ![i] = @ + 1] ELSE inv
         IN IF calls /\ DisposeThrows(dRegs[i].res)
            THEN [stack |-> rest, guard |-> guard, inv |-> inv2, threw |-> TRUE]
            ELSE DisposeRun(rest,
                            IF dRegs[i].via = "use" THEN guard ELSE [guard EXCEPT ![i] = TRUE],
                            inv2)

\* DisposableStack.dispose().
StackDispose ==
    /\ dLast.n < MaxStackCalls
    /\ IF dDisposed
       THEN /\ dLast' = [n |-> dLast.n + 1, op |-> "dispose", outcome |-> "ok"]
            /\ UNCHANGED <<dStack, dDisposed, dGuard, dInv>>
       ELSE LET run == DisposeRun(dStack, dGuard, dInv)
            IN /\ dStack' = run.stack
               /\ dGuard' = run.guard
               /\ dInv' = run.inv
               /\ dDisposed' = ~run.threw
               /\ dLast' = [n |-> dLast.n + 1, op |-> "dispose",
                            outcome |-> IF run.threw THEN "threw" ELSE "ok"]
    /\ UNCHANGED dRegs

DUse == \E res \in Resources : StackAdd("use", res) /\ FrameStack

DAdopt == \E res \in Resources : StackAdd("adopt", res) /\ FrameStack

DDefer == \E res \in Resources : StackAdd("defer", res) /\ FrameStack

DDispose == StackDispose /\ FrameStack

NextStack ==
    \/ DUse
    \/ DAdopt
    \/ DDefer
    \/ DDispose

(***************************************************************************)
(* debounce(fn, delay).                                                    *)
(***************************************************************************)

\* Arguments the debounced function is called with.
Args == {"x", "y", "z"}

\* A timer that keeps the arguments it was first armed with.
RearmKeepFirst(handle, args) == IF handle = Undefined THEN args ELSE handle

\* clearTimeout(handle) followed by setTimeout(.., delay, args): the pending
\* timer is replaced by one that carries the arguments of this call.
Rearm(handle, args) == args

InitDebounce ==
    /\ bHandle = Undefined
    /\ bResolvers = 0
    /\ bPromises = 0
    /\ bCalls = <<>>
    /\ bRuns = <<>>
    /\ bResolved = {}

\* A call of the debounced function.
DebounceCall(args) ==
    /\ Len(bCalls) < MaxDebounceCalls
    /\ LET promise == IF bResolvers = 0 THEN bPromises + 1 ELSE bResolvers
       IN /\ bResolvers' = promise
          /\ bPromises' = IF bResolvers = 0 THEN bPromises + 1 ELSE bPromises
          /\ bCalls' = Append(bCalls, [args |-> args, promise |-> promise])
    /\ bHandle' = Rearm(bHandle, args)
    /\ UNCHANGED <<bRuns, bResolved>>

\* The timer fires: resolvers is captured and cleared, fn is called.
DebounceFire ==
    /\ bHandle # Undefined
    /\ bRuns' = Append(bRuns, [promise |-> bResolvers, args |-> bHandle,
                               at |-> Len(bCalls), state |-> "running"])
    /\ bResolvers' = 0
    /\ bHandle' = Undefined
    /\ UNCHANGED <<bPromises, bCalls, bResolved>>

\* `await fn(...args)` ends: after a normal end the captured promise is
\* resolved, after a throw or a rejection the callback ends there.
DebounceSettle(r, outcome) ==
    /\ r \in 1..Len(bRuns)
    /\ bRuns[r].state = "running"
    /\ bRuns' = [bRuns EXCEPT ![r].state = outcome]
    /\ bResolved' = IF outcome = "done" /\ bRuns[r].promise # 0
                    THEN bResolved \cup {bRuns[r].promise}
                    ELSE bResolved
    /\ UNCHANGED <<bHandle, bResolvers, bPromises, bCalls>>

BCall == \E args \in Args : DebounceCall(args) /\ FrameDebounce

BFire == DebounceFire /\ FrameDebounce

BSettle ==
    \E r \in 1..MaxDebounceCalls, outcome \in {"done", "threw"} :
        DebounceSettle(r, outcome) /\ FrameDebounce

NextDebounce ==
    \/ BCall
    \/ BFire
    \/ BSettle

(***************************************************************************)
(* RpcRequestResponseHandler, the responder that writes to a stream.       *)
(***************************************************************************)

AlreadySent == "Cannot send response as one has already been sent."

\* What getWriter() throws when the stream is locked by another writer.
StreamLocked == "TypeError"

\* A guard that returns without writing once a response was sent.
SendGuardSilent(responded) == IF responded THEN "ok" ELSE "write"

\* The guard of #send: `if (this.#responded) throw new Error(..)`.
SendGuard(responded) == IF responded THEN AlreadySent ELSE "write"

\* Ids of the requests that have a handler; the handlers write to the same
\* stream.
HandlerIds == {"r1", "r2"}

InitHandler ==
    /\ hResponded = [id \in HandlerIds |-> FALSE]
    /\ hWritten = <<>>
    /\ hLast = [n |-> 0, id |-> "r1", op |-> "new", outcome |-> "ok"]

\* send(result) and error(error): the response is built with the id of the
\* request and handed to #send, which takes a writer of the stream, writes
\* and sets #responded.
HandlerSend(id, op, payload, locked) ==
    /\ hLast.n < MaxHandlerCalls
    /\ LET res == IF op = "send" THEN RpcResultMessage(id, payload)
                                 ELSE RpcErrorMessage(id, payload)
           guard == SendGuard(hResponded[id])
           call == [n |-> hLast.n + 1, id |-> id, op |-> op]
       IN IF guard # "write"
          THEN /\ hLast' = call @@ [outcome |-> guard]
               /\ UNCHANGED <<hResponded, hWritten>>
          ELSE IF locked
          THEN /\ hLast' = call @@ [outcome |-> StreamLocked]
               /\ UNCHANGED <<hResponded, hWritten>>
          ELSE /\ hWritten' = Append(hWritten, res)
               /\ hResponded' = [hResponded EXCEPT ![id] = TRUE]
               /\ hLast' = call @@ [outcome |-> "ok"]

HSend ==
    \E id \in HandlerIds, payload \in Bodies, locked \in BOOLEAN :
        HandlerSend(id, "send", payload, locked) /\ FrameHandler

HError ==
    \E id \in HandlerIds, locked \in BOOLEAN :
        HandlerSend(id, "error", HandlerError, locked) /\ FrameHandler

NextHandler ==
    \/ HSend
    \/ HError

(***************************************************************************)
(* RpcMethodDispatcher, as RpcConnection uses it for inbound requests.     *)
(***************************************************************************)

\* What a handler registered with the dispatcher does: return a value, return
\* next(), or throw.
DispatchKinds == {"ret", "next", "throw"}

NoHandlersMessage(method) ==
    IF method = "m" THEN "No method handlers found for: m"
                    ELSE "No method handlers found for: n"

\* RpcConnection.#parse: `req.id ? new RpcRequestResponseHandler(..) : new
\* RpcNotificationResponseHandler()`.
ResponseHandlerFor(id) == IF Truthy(id) THEN "request" ELSE "notification"

\* canRespond: RpcRequestResponseHandler returns #responded,
\* RpcNotificationResponseHandler returns false.
HandlerCanRespond(kind, responded) == kind = "request" /\ responded

\* The test at the head of dispatch: `if (methods.length === 0)` takes the
\* branch that invokes the chain.
RunsChain(methods) == Len(methods) = 0

\* The chain of #invoke from position k on: which handlers are invoked, and
\* how the call ends.  next() without a handler left is null.
RECURSIVE InvokeChain(_, _)
InvokeChain(methods, k) ==
    IF k > Len(methods)
    THEN [invoked |-> <<>>, result |-> Null, threw |-> FALSE]
    ELSE LET h == methods[k]
         IN CASE h.kind = "ret" ->
                   [invoked |-> <<h.uid>>, result |-> BodySeq[h.uid], threw |-> FALSE]
              [] h.kind = "throw" ->
                   [invoked |-> <<h.uid>>, result |-> Undefined, threw |-> TRUE]
              [] OTHER ->
                   LET rest == InvokeChain(methods, k + 1)
                   IN [rest EXCEPT !.invoked = <<h.uid>> \o @]

\* response.send / response.error of the handler of dispatch r: the request
\* handler writes unless it has responded, and then throws; the notification
\* handler does nothing.
DispatchRespond(r, res) ==
    IF r.handler = "request" /\ SendGuard(r.responded) = "write"
    THEN [r EXCEPT !.written = Append(@, res), !.responded = TRUE]
    ELSE IF r.handler = "request"
    THEN [r EXCEPT !.threw = TRUE]
    ELSE r

InitDispatcher ==
    /\ mMethods = [n \in MethodNames |-> <<>>]
    /\ mDisp = <<>>

RegisteredCount == Len(mMethods["m"]) + Len(mMethods["n"])

\* RpcMethodDispatcher.add(method, handler).
DispatcherAdd(method, kind) ==
    /\ RegisteredCount < MaxMethods
    /\ mMethods' = [mMethods EXCEPT ![method] =
                       ListenerPush(@, [uid |-> RegisteredCount + 1, kind |-> kind])]
    /\ UNCHANGED mDisp

\* RpcConnection.#parse for a request, up to the first await of dispatch:
\* the handlers are looked up, and either the chain is started or the
\* MethodNotFound error is handed to the response handler.
Dispatch(method, id) ==
    /\ Len(mDisp) < MaxDispatches
    /\ LET methods == mMethods[method]
           r == [method |-> method, id |-> id, handler |-> ResponseHandlerFor(id),
                 snap |-> methods, pc |-> "done", invoked |-> <<>>, result |-> Undefined,
                 failed |-> FALSE, responded |-> FALSE, written |-> <<>>, threw |-> FALSE]
       IN IF RunsChain(methods)
          THEN LET run == InvokeChain(methods, 1)
               IN mDisp' = Append(mDisp, [r EXCEPT !.pc = "invoke",
                                                   !.invoked = run.invoked,
                                                   !.result = run.result,
                                                   !.failed = run.threw])
          ELSE mDisp' = Append(mDisp,
                   DispatchRespond(r, RpcErrorMessage(id,
                       [code |-> MethodNotFound, message |-> NoHandlersMessage(method)])))
    /\ UNCHANGED mMethods

\* `await next(methods)()` resumes in #invoke: the result is sent when
\* canRespond says so, an error is answered with InternalError.
DispatchSettle(d) ==
    /\ d \in 1..Len(mDisp)
    /\ mDisp[d].pc = "invoke"
    /\ LET r == [mDisp[d] EXCEPT !.pc = "done"]
       IN mDisp' = [mDisp EXCEPT ![d] =
              IF r.failed
              THEN DispatchRespond(r, RpcErrorMessage(r.id,
                       [code |-> InternalError, message |-> "boom"]))
              ELSE IF HandlerCanRespond(r.handler, r.responded)
              THEN DispatchRespond(r, RpcResultMessage(r.id, Nullish(r.result)))
              ELSE r]
    /\ UNCHANGED mMethods

MAdd == \E method \in MethodNames, kind \in DispatchKinds : DispatcherAdd(method, kind) /\ FrameDispatcher

MDispatch == \E method \in MethodNames, id \in {"r1", "r2", Undefined} : Dispatch(method, id) /\ FrameDispatcher

MSettle == \E d \in 1..MaxDispatches : DispatchSettle(d) /\ FrameDispatcher

NextDispatcher ==
    \/ MAdd
    \/ MDispatch
    \/ MSettle

(***************************************************************************)
(* EventEmitter.                                                           *)
(***************************************************************************)

EventNames == {"e", "x"}

\* The functions registered as listeners.  "s" is a listener that removes
\* itself from the event when it is invoked; "f" and "g" only take the
\* arguments.
ListenerFns == {"f", "g", "s"}
RemovesItself(fn) == fn = "s"

\* The ways of registering a listener.
AddMethods == {"on", "once", "prependListener", "prependOnceListener", "disposableOn"}

\* The listeners array without the entry at index i: listeners.splice(i, 1).
SpliceOut(listeners, i) ==
    SubSeq(listeners, 1, i - 1) \o SubSeq(listeners, i + 1, Len(listeners))

\* EventEmitter.off(name, listener): the loop runs over the whole array,
\* from the end, and removes every entry whose listener is the function.
Off(listeners, fn) == SelectSeq(listeners, LAMBDA x : x.fn # fn)

\* What emit returns: false when the map has no entry for the event name,
\* true otherwise.
EmitResult(present, listeners) == present

\* The loop of emit over the array of the event: a once-listener is spliced
\* out and the index stays, otherwise the index moves on; then the listener
\* is invoked, and what it removes is removed from the same array.
RECURSIVE EmitLoop(_, _, _)
EmitLoop(listeners, i, invoked) ==
    IF i > Len(listeners)
    THEN [listeners |-> listeners, invoked |-> invoked]
    ELSE LET entry == listeners[i]
             spliced == IF entry.once THEN SpliceOut(listeners, i) ELSE listeners
             j == IF entry.once THEN i ELSE i + 1
         IN EmitLoop(IF RemovesItself(entry.fn) THEN Off(spliced, entry.fn) ELSE spliced,
                     j, Append(invoked, entry.uid))

InitEmitter ==
    /\ eKeys = {}
    /\ eList = [n \in EventNames |-> <<>>]
    /\ eHandles = <<>>
    /\ eCount = 0
    /\ eLast = [n |-> 0, op |-> "new", name |-> "e", before |-> <<>>, present |-> FALSE,
                invoked |-> <<>>, result |-> FALSE]

EmitterCall(op, name) ==
    [n |-> eLast.n + 1, op |-> op, name |-> name, before |-> eList[name],
     present |-> name \in eKeys, invoked |-> <<>>, result |-> FALSE]

\* on / addListener / once / prependListener / prependOnceListener /
\* disposableOn: add creates the array of the event when there is none and
\* pushes or prepends the entry.
EmitterAdd(how, name, fn) ==
    /\ eLast.n < MaxEmitterCalls
    /\ LET reg == [uid |-> eCount + 1, fn |-> fn,
                   once |-> how \in {"once", "prependOnceListener"}]
       IN eList' = [eList EXCEPT ![name] =
                       IF how \in {"prependListener", "prependOnceListener"}
                       THEN ListenerPrepend(@, reg)
                       ELSE ListenerPush(@, reg)]
    /\ eKeys' = eKeys \cup {name}
    /\ eCount' = eCount + 1
    /\ eHandles' = IF how = "disposableOn"
                   THEN Append(eHandles, [uid |-> eCount + 1, name |-> name, fn |-> fn,
                                          disposed |-> FALSE])
                   ELSE eHandles
    /\ eLast' = EmitterCall(how, name)

\* off(name, listener) and removeListener(name, listener).
EmitterOff(name, fn) ==
    /\ eLast.n < MaxEmitterCalls
    /\ eList' = [eList EXCEPT ![name] = Off(@, fn)]
    /\ eLast' = EmitterCall("off", name)
    /\ UNCHANGED <<eKeys, eHandles, eCount>>

\* dispose() of a disposableOn handle: guarded by isDisposed, it calls
\* removeListener(name, listener).
EmitterDispose(h) ==
    /\ eLast.n < MaxEmitterCalls
    /\ h \in 1..Len(eHandles)
    /\ eHandles' = [eHandles EXCEPT ![h].disposed = TRUE]
    /\ eList' = IF eHandles[h].disposed THEN eList
                ELSE [eList EXCEPT ![eHandles[h].name] = Off(@, eHandles[h].fn)]
    /\ eLast' = [EmitterCall("dispose", eHandles[h].name) EXCEPT !.invoked = <<eHandles[h].uid>>]
    /\ UNCHANGED <<eKeys, eCount>>

\* removeAllListeners(name): every entry is removed and the map entry is
\* deleted.
EmitterRemoveAll(name) ==
    /\ eLast.n < MaxEmitterCalls
    /\ eList' = [eList EXCEPT ![name] = <<>>]
    /\ eKeys' = eKeys \ {name}
    /\ eLast' = EmitterCall("removeAllListeners", name)
    /\ UNCHANGED <<eHandles, eCount>>

\* emit(name, ..args).
Emit(name) ==
    /\ eLast.n < MaxEmitterCalls
    /\ LET run == IF name \in eKeys THEN EmitLoop(eList[name], 1, <<>>)
                  ELSE [listeners |-> eList[name], invoked |-> <<>>]
       IN /\ eList' = [eList EXCEPT ![name] = run.listeners]
          /\ eLast' = [EmitterCall("emit", name) EXCEPT
                          !.invoked = run.invoked,
                          !.result = EmitResult(name \in eKeys, eList[name])]
    /\ UNCHANGED <<eKeys, eHandles, eCount>>

EAdd ==
    \E how \in AddMethods, name \in EventNames, fn \in ListenerFns :
        EmitterAdd(how, name, fn) /\ FrameEmitter

EOff == \E name \in EventNames, fn \in ListenerFns : EmitterOff(name, fn) /\ FrameEmitter

EDispose == \E h \in 1..MaxEmitterCalls : EmitterDispose(h) /\ FrameEmitter

ERemoveAll == \E name \in EventNames : EmitterRemoveAll(name) /\ FrameEmitter

EEmit == \E name \in EventNames : Emit(name) /\ FrameEmitter

NextEmitter ==
    \/ EAdd
    \/ EOff
    \/ EDispose
    \/ ERemoveAll
    \/ EEmit

InitUtilities == InitPool /\ InitStack /\ InitDebounce /\ InitHandler /\ InitDispatcher /\ InitEmitter

InitResponderSpec == InitResp /\ InitClient /\ InitServer /\ InitRpcServer /\ InitGateway /\ InitUtilities /\ InitRpcClient

SpecResponder == InitResponderSpec /\ [][NextResp]_vars

InitClientSpec == InitRespIdle /\ InitClient /\ InitServer /\ InitRpcServer /\ InitGateway /\ InitUtilities /\ InitRpcClient

SpecClient == InitClientSpec /\ [][NextClient]_vars

\* The Client with the scheduling JavaScript gives: a timer that stays armed
\* fires, and the proxy call of a send settles.
SpecClientLive ==
    /\ InitClientSpec
    /\ [][NextClient]_vars
    /\ \A id \in ReqIds : WF_vars(TimerFire(id) /\ FrameClient)
    /\ \A id \in ReqIds : WF_vars(ClientProxySettle(id) /\ FrameClient)

InitServerSpec == InitRespIdle /\ InitClient /\ InitServer /\ InitRpcServer /\ InitGateway /\ InitUtilities /\ InitRpcClient

SpecServer == InitServerSpec /\ [][NextServer]_vars

InitGatewaySpec == InitRespIdle /\ InitClient /\ InitServer /\ InitRpcServer /\ InitGateway /\ InitUtilities /\ InitRpcClient

SpecGateway == InitGatewaySpec /\ [][NextGateway]_vars

InitStackSpec == InitRespIdle /\ InitClient /\ InitServer /\ InitRpcServer /\ InitGateway /\ InitUtilities /\ InitRpcClient

SpecStack == InitStackSpec /\ [][NextStack]_vars

InitDebounceSpec == InitRespIdle /\ InitClient /\ InitServer /\ InitRpcServer /\ InitGateway /\ InitUtilities /\ InitRpcClient

SpecDebounce == InitDebounceSpec /\ [][NextDebounce]_vars

InitHandlerSpec == InitRespIdle /\ InitClient /\ InitServer /\ InitRpcServer /\ InitGateway /\ InitUtilities /\ InitRpcClient

SpecHandler == InitHandlerSpec /\ [][NextHandler]_vars

InitDispatcherSpec == InitRespIdle /\ InitClient /\ InitServer /\ InitRpcServer /\ InitGateway /\ InitUtilities /\ InitRpcClient

SpecDispatcher == InitDispatcherSpec /\ [][NextDispatcher]_vars

InitEmitterSpec == InitRespIdle /\ InitClient /\ InitServer /\ InitRpcServer /\ InitGateway /\ InitUtilities /\ InitRpcClient

SpecEmitter == InitEmitterSpec /\ [][NextEmitter]_vars

InitPoolSpec == InitRespIdle /\ InitClient /\ InitServer /\ InitRpcServer /\ InitGateway /\ InitUtilities /\ InitRpcClient

SpecPool == InitPoolSpec /\ [][NextPool]_vars

InitRpcClientSpec ==
    /\ InitRespIdle /\ InitClient /\ InitServer /\ InitRpcServer /\ InitGateway /\ InitUtilities
    /\ \E variant \in Variants : InitRpcClientAs(variant)

SpecRpcClient == InitRpcClientSpec /\ [][NextRpcClient]_vars

InitRpcNotifySpec ==
    /\ InitRespIdle /\ InitClient /\ InitServer /\ InitRpcServer /\ InitGateway /\ InitUtilities
    /\ \E variant \in Variants : InitRpcClientAs(variant)

SpecRpcNotify == InitRpcNotifySpec /\ [][NextRpcNotify]_vars

(***************************************************************************)
(* Two gateways joined by proxies that deliver every envelope: the client  *)
(* of one sends requests to the server of the other, whose responses come  *)
(* back to the client.  A proxy is any asynchronous function: each call    *)
(* delivers its envelope after a delay of its own.                         *)
(***************************************************************************)
\* gateway.send(..) on the requesting side; the proxy accepts the envelope.
LinkSend ==
    \E p \in Paths, u \in BOOLEAN :
        ClientSend(p, Undefined, u, "true") /\ FrameClient

\* The proxy of the requesting side calls receive(value) of the other
\* gateway: its client has nothing pending, its server takes the request.
LinkDeliverRequest ==
    /\ c2s # <<>>
    /\ ~ClientMatches({}, Head(c2s))
    /\ \E ctx \in Contexts : ServerReceiveRequest(Head(c2s), ctx)
    /\ c2s' = Tail(c2s)
    /\ UNCHANGED <<cNext, cRequests, cReq, cTimer, cSend, cProxy, cResolved, cAttempts,
                   cRecv, cLast>>
    /\ FrameLink

\* The sequence without its k-th element.
RemoveAt(seq, k) == SubSeq(seq, 1, k - 1) \o SubSeq(seq, k + 1, Len(seq))

\* A proxy call of the responding side gets to call receive(value) of the
\* requesting gateway.
LinkDeliverResponse ==
    \E d \in Dispatches : \E k \in 1..Len(s2c[d]) :
        /\ ClientReceive(s2c[d][k])
        /\ cRecv' = cRecv + 1
        /\ s2c' = [s2c EXCEPT ![d] = RemoveAt(@, k)]
        /\ UNCHANGED <<routes, sUid, sDisposed, sCount, disp, sResponded, sDetached, sLog>>
        /\ FrameLink

NextLink ==
    \/ SrvRoute
    \/ LinkSend
    \/ LinkDeliverRequest
    \/ SrvLoopStep
    \/ SrvHandlerCall
    \/ SrvHandlerSettle
    \/ SrvSendSettle
    \/ SrvDetachedSettle
    \/ LinkDeliverResponse
    \/ ClientTimerFire
    \/ ClientSettle

InitLinkSpec == InitRespIdle /\ InitClient /\ InitServer /\ InitRpcServer /\ InitGateway /\ InitUtilities /\ InitRpcClient

SpecLink == InitLinkSpec /\ [][NextLink]_vars

InitRpcServerSpec == InitRespIdle /\ InitClient /\ InitServer /\ InitRpcServer /\ InitGateway /\ InitUtilities /\ InitRpcClient

SpecRpcServer == InitRpcServerSpec /\ [][NextRpcServer]_vars

(***************************************************************************)
(* A peer that runs one of the two servers: the path-based Server answers  *)
(* through a MessageResponder, the RpcServer through an                   *)
(* RpcRequestResponder.                                                    *)
(***************************************************************************)
InitEitherServerSpec ==
    /\ rKind \in {"message", "rpc"}
    /\ rId = "r1" /\ rResponded = FALSE
    /\ rPc = "idle" /\ rCalls = <<>> /\ rProxy = <<>>
    /\ InitClient /\ InitServer /\ InitRpcServer /\ InitGateway /\ InitUtilities /\ InitRpcClient

NextEitherServer ==
    \/ rKind = "message" /\ SrvRoute
    \/ rKind = "message" /\ SrvReceiveRequest
    \/ rKind = "message" /\ SrvLoopStep
    \/ rKind = "message" /\ SrvHandlerCall
    \/ rKind = "message" /\ SrvHandlerSettle
    \/ rKind = "message" /\ SrvSendSettle
    \/ rKind = "message" /\ SrvDetachedSettle
    \/ rKind = "rpc" /\ JAddMethod
    \/ rKind = "rpc" /\ JReceiveRequest
    \/ rKind = "rpc" /\ JMethodCall
    \/ rKind = "rpc" /\ JChainSettle
    \/ rKind = "rpc" /\ JSendSettle
    \/ rKind = "rpc" /\ JDetachedSettle

SpecEitherServer == InitEitherServerSpec /\ [][NextEitherServer]_vars

(***************************************************************************)
(* Claims.                                                                 *)
(***************************************************************************)
RespSentBefore(k) == \E j \in 1..(k - 1) : rCalls[j].outcome = "sent"
RespInvoked == SelectSeq(rCalls, LAMBDA c : c.outcome # "noop")

ProxyEvents(d) == SelectSeq(sLog[d], LAMBDA e : e.ev = "proxy")

\* C2 as stated: for one inbound request at most one response envelope is
\* ever passed to the transport proxy, also when a handler starts
\* responder.success(..) without awaiting it and the server then issues its
\* own send while the first one is in flight.
C2_AtMostOneEnvelope ==
    \A d \in Dispatches : Len(ProxyEvents(d)) <= 1

\* The sources of the #resolveRequest calls made for a request, in order.
Sources(id) == [k \in 1..Len(cAttempts[id]) |-> cAttempts[id][k].src]

\* C3 as stated: the promise returned by Client.send never rejects, whatever
\* the transport proxy does, and a refused request resolves to a response
\* whose status signals the failure.
C3_SendNeverRejects ==
    \A id \in ReqIds :
        /\ cSend[id] # "threw"
        /\ (cSend[id] = "returned" /\ cProxy[id] = "false") =>
              (cResolved[id] # <<>> /\ Outcome(id) = cResolved[id][1] /\ ~Ok(Outcome(id)))

\* C4: for every request sent, whatever the order of the three resolving
\* events (matching response received, timer fired, proxy refused), the
\* resolver is invoked at most once, with the response of the first event;
\* every later event finds no pool entry, and the id stays out of the pool.
C4_ResolvedOnceByFirstEvent ==
    \A id \in ReqIds :
        /\ Len(cResolved[id]) <= 1
        /\ cAttempts[id] = <<>> => (cResolved[id] = <<>> /\ (cSend[id] # "new" => id \in cRequests))
        /\ cAttempts[id] # <<>> =>
              /\ cAttempts[id][1].found
              /\ cResolved[id] = <<cAttempts[id][1].res>>
              /\ id \notin cRequests
              /\ \A k \in 2..Len(cAttempts[id]) : ~cAttempts[id][k].found

\* C4 witness: all three events happened for one request, the timer first.
C4_Witness ==
    \E id \in ReqIds :
        /\ Len(cAttempts[id]) >= 3
        /\ {"timer", "proxy", "receive"} \subseteq {Sources(id)[k] : k \in 1..Len(cAttempts[id])}
        /\ Len(cResolved[id]) = 1

\* C5: when the timer of a request fires before any matching response is
\* received (and before the proxy refused it), the resolver gets the 408
\* response without body, which is what Client.send returns, the id leaves the
\* pool, and a response for that id received afterwards is not matched:
\* Client.receive returns false and the resolver is not called again.
C5_TimeoutThenLateResponseDropped ==
    \A id \in ReqIds :
        (cAttempts[id] # <<>> /\ cAttempts[id][1].src = "timer") =>
            /\ cResolved[id] = <<ResponseMessage(id, cReq[id].path, 408, Undefined)>>
            /\ ~Ok(cResolved[id][1])
            /\ cSend[id] = "returned" => Outcome(id) = cResolved[id][1]
            /\ id \notin cRequests
            /\ cTimer[id] = "fired"
            /\ \A k \in 2..Len(cAttempts[id]) : ~cAttempts[id][k].found
            /\ (IsResponse(cLast.value) /\ cLast.value.id = id) => ~cLast.result

\* C5 witness: the timer fired first and a response for the id came later.
C5_Witness ==
    \E id \in ReqIds :
        /\ Len(cAttempts[id]) = 2
        /\ Sources(id) = <<"timer", "receive">>
        /\ IsResponse(cLast.value) /\ cLast.value.id = id /\ cLast.value.status = 200
        /\ cSend[id] = "returned"

\* C6 as stated: when the proxy returns false for a request, the request
\* resolves with 406 (not ok, no body), its entry is removed, and the server
\* never receives the request.
C6_RefusedResolves406 ==
    \A id \in ReqIds :
        (cSend[id] = "returned" /\ cProxy[id] = "false") =>
            /\ Outcome(id) = ResponseMessage(id, cReq[id].path, 406, Undefined)
            /\ id \notin cRequests
            /\ \A k \in 1..Len(c2s) : c2s[k].id # id

\* C6 amended: when the proxy returns false for a request that is still
\* pending when the proxy call settles (its timer has not fired and no matching
\* response was received), the request resolves with 406 (not ok, no body);
\* a request resolved earlier keeps that earlier response.  In both cases the
\* entry is removed and the server never receives the request.
C6_RefusedWhilePendingResolves406 ==
    \A id \in ReqIds :
        (cSend[id] = "returned" /\ cProxy[id] = "false") =>
            /\ \E k \in 1..Len(cAttempts[id]) : cAttempts[id][k].src = "proxy"
            /\ Outcome(id) = cAttempts[id][1].res
            /\ cAttempts[id][1].src = "proxy" =>
                  /\ Outcome(id) = ResponseMessage(id, cReq[id].path, 406, Undefined)
                  /\ ~Ok(Outcome(id))
                  /\ cTimer[id] = "cleared"
            /\ id \notin cRequests
            /\ \A k \in 1..Len(c2s) : c2s[k].id # id

\* C6 witness: a refused request resolved with 406 while another request was
\* handed to the server.
C6_Witness ==
    \E id \in ReqIds :
        /\ cSend[id] = "returned" /\ cProxy[id] = "false"
        /\ Sources(id) = <<"proxy">>
        /\ Outcome(id).status = 406
        /\ Len(c2s) = 1

\* The first handler invoked for request d, as a sequence of at most one
\* "start" event.
FirstStart(d) ==
    LET starts == SelectSeq(sLog[d], LAMBDA e : e.ev = "start")
    IN IF starts = <<>> THEN <<>> ELSE <<starts[1]>>

\* Request d is not unidirectional and the handler that runs for it calls
\* responder.success(b), awaited or not, or returns b.
AnsweredByHandler(d) ==
    /\ IsRequest(disp[d].req)
    /\ ~disp[d].req.unidirectional
    /\ FirstStart(d) # <<>>
    /\ FirstStart(d)[1].kind \in {"success", "successAwait", "ret"}

\* C7 as stated: over proxies that deliver every envelope, a request that is
\* not unidirectional and whose handler calls responder.success(b) or returns
\* b resolves at the sender with status 200, ok and body b, unless the timeout
\* fired first: once the server is done and its envelopes are delivered the
\* request is resolved, and whenever it is resolved by a received response it
\* is resolved once, with the 200 that carries b.
C7_RoundTrip200 ==
    \A d \in Dispatches :
        AnsweredByHandler(d) =>
            LET id == disp[d].req.id
                b == BodySeq[FirstStart(d)[1].uid]
            IN /\ (disp[d].pc = "done" /\ s2c[d] = <<>> /\ cTimer[id] # "fired") =>
                     (cAttempts[id] # <<>> /\ cAttempts[id][1].src = "receive")
               /\ (cAttempts[id] # <<>> /\ cAttempts[id][1].src = "receive") =>
                     /\ Len(cResolved[id]) = 1
                     /\ cResolved[id][1].id = id
                     /\ cResolved[id][1].path = cReq[id].path
                     /\ cResolved[id][1].status = 200
                     /\ Ok(cResolved[id][1])
                     /\ cResolved[id][1].body = b
                     /\ cTimer[id] = "cleared"
                     /\ cSend[id] = "returned" => Outcome(id) = cResolved[id][1]

\* C8: a value that is neither a well-formed request nor a well-formed
\* response is answered with false by MessageGateway.receive and
\* Server.receive: nothing is thrown, no route is looked at, no handler is
\* invoked and the transport proxy is never called.
C8_UnknownPayloadIgnored ==
    \A d \in Dispatches :
        disp[d].req \in UnknownValues =>
            /\ disp[d].pc = "done"
            /\ disp[d].ret = "false"
            /\ sLog[d] = <<>>
            /\ s2c[d] = <<>>
            /\ sDetached[d] = 0
            /\ ~sResponded[d]

\* C8 witness: a value of the wrong __type was received while a route for its
\* path was registered.
C8_Witness ==
    \E d \in Dispatches :
        /\ disp[d].req \in UnknownValues
        /\ ~IsRequest(disp[d].req) /\ ~IsResponse(disp[d].req)
        /\ "__type" \in DOMAIN disp[d].req /\ disp[d].req.__type = "req"
        /\ disp[d].ret = "false"
        /\ Listeners("/a") # <<>>

Started(d) == {sLog[d][k].uid : k \in {j \in 1..Len(sLog[d]) : sLog[d][j].ev = "start"}}

\* The places of the route table a registration is found at.
Places(uid) ==
    {<<p, k>> \in Paths \X (1..MaxRoutes) : k <= Len(routes[p]) /\ routes[p][k].uid = uid}

\* C11: disposing the handle of a route removes exactly that registration.
\* The route table holds every registration that was not disposed, once, in
\* registration order; a request never invokes a registration disposed before
\* it was received, and the registrations of its path that are still there
\* are in its dispatch, in order, and invoked when their filter accepts.
C11_RouteRemovalPrecise ==
    /\ \A uid \in 1..sUid :
          Cardinality(Places(uid)) = IF uid \in sDisposed THEN 0 ELSE 1
    /\ \A p \in Paths : \A j, k \in 1..Len(routes[p]) :
          j < k => routes[p][j].uid < routes[p][k].uid
    /\ \A d \in Dispatches :
          IsRequest(disp[d].req) =>
             LET r == disp[d]
                 inSnap == {r.snap[k] : k \in 1..Len(r.snap)}
             IN /\ \A reg \in inSnap : reg.uid \notin r.gone /\ reg.uid <= r.regd
                /\ Started(d) \cap r.gone = {}
                /\ \A j, k \in 1..Len(r.snap) : j < k => r.snap[j].uid < r.snap[k].uid
                /\ \A p \in Paths : \A k \in 1..Len(routes[p]) :
                      routes[p][k].uid <= r.regd =>
                         (routes[p][k] \in inSnap <=> p = r.req.path)
                /\ (r.pc = "done" /\ r.ret # "threw") =>
                      Started(d) = {reg.uid : reg \in {x \in inSnap : FilterPass(x, r.ctx)}}

\* C11 witness: of two routes of one path the first was disposed before the
\* request was received; only the second handler ran.
C11_Witness ==
    \E d \in Dispatches :
        /\ IsRequest(disp[d].req) /\ disp[d].pc = "done"
        /\ disp[d].regd = 2 /\ disp[d].gone = {1}
        /\ Len(disp[d].snap) = 1
        /\ Started(d) = {2}

\* The envelopes passed to the sender for JSON-RPC request d, in order.
RpcProxyEvents(d) == SelectSeq(jLog[d], LAMBDA e : e.ev = "proxy")

\* Position p of the log is the invocation of a handler that throws, and no
\* envelope was passed to the proxy before it.
ThrowsUnanswered(L, p, kinds) ==
    /\ L[p].ev = "start"
    /\ L[p].kind \in kinds
    /\ \A t \in 1..(p - 1) : L[t].ev # "proxy"

C12_WitnessRpc ==
    \E d \in RpcDispatches :
        /\ jDisp[d].pc = "done" /\ jDisp[d].ret = "threw"
        /\ jDisp[d].req.id = "r1"
        /\ jDisp[d].err.type = "Error"
        /\ Len(jLog[d]) = 4
        /\ jLog[d][1].kind = "next" /\ jLog[d][2].kind = "throw"
        /\ jLog[d][3].env = RpcErrorMessage("r1", [code |-> InternalError, message |-> "boom"])

StartPositions(d) == {p \in 1..Len(sLog[d]) : sLog[d][p].ev = "start"}

\* Some handler in the dispatch of request d passes its filter.
SomeAccepts(d) == \E k \in 1..Len(disp[d].snap) : FilterPass(disp[d].snap[k], disp[d].ctx)

\* C13: for a unidirectional request that some handler of the path accepts,
\* the only envelope ever passed to the proxy is one 202 without body, and
\* the proxy has acknowledged it before the body of the first accepting
\* handler runs; further accepting handlers, return values, responder calls
\* of handlers and a handler that throws add no envelope.
C13_UnidirectionalSingle202 ==
    \A d \in Dispatches :
        (IsRequest(disp[d].req) /\ disp[d].req.unidirectional /\ SomeAccepts(d)) =>
            /\ Len(ProxyEvents(d)) <= 1
            /\ \A k \in 1..Len(ProxyEvents(d)) :
                  ProxyEvents(d)[k].env =
                      ResponseMessage(disp[d].req.id, disp[d].req.path, 202, Undefined)
            /\ \A p \in StartPositions(d) :
                  \E t, a \in 1..(p - 1) :
                      /\ t < a
                      /\ sLog[d][t].ev = "proxy"
                      /\ sLog[d][a].ev = "acked"
            /\ sDetached[d] = 0
            /\ disp[d].pc = "done" =>
                  (Len(ProxyEvents(d)) = 1 /\ disp[d].ret \in {"true", "threw"})

\* C13 witness: two handlers accepted a unidirectional request, the first
\* returned a value and the second threw; one 202 was sent.
C13_Witness ==
    \E d \in Dispatches :
        /\ IsRequest(disp[d].req) /\ disp[d].req.unidirectional
        /\ disp[d].pc = "done" /\ disp[d].ret = "threw"
        /\ \E p, q \in StartPositions(d) :
              /\ p < q
              /\ sLog[d][p].kind = "ret"
              /\ sLog[d][q].kind = "throw"
        /\ Len(ProxyEvents(d)) = 1
        /\ ProxyEvents(d)[1].env.status = 202

\* The handler invocations of dispatch d, in order.
Starts(d) == SelectSeq(sLog[d], LAMBDA e : e.ev = "start")

\* The registrations in the dispatch of request d whose filter accepts it.
Accepting(d) ==
    {disp[d].snap[k].uid : k \in {j \in 1..Len(disp[d].snap) : FilterPass(disp[d].snap[j], disp[d].ctx)}}

\* Request d expects a response and no handler invoked for it threw.
Cascades(d) ==
    /\ IsRequest(disp[d].req)
    /\ ~disp[d].req.unidirectional
    /\ \A k \in 1..Len(Starts(d)) : Starts(d)[k].kind # "throw"

\* The invocations of dispatch d that return a value other than undefined.
Returning(d) == SelectSeq(Starts(d), LAMBDA e : e.kind = "ret")

\* The envelopes the server sent for dispatch d from a handler's return value.
ReturnEvents(d) ==
    SelectSeq(sLog[d], LAMBDA e : e.ev = "proxy" /\ e.by = "server" /\ e.env.status = 200
                                   /\ e.env.body # Undefined)

\* Some handler invoked for request d called the responder itself.
UsesResponder(d) ==
    \E k \in 1..Len(Starts(d)) : Starts(d)[k].kind \in {"success", "successAwait"}

SilentlyHandled(d) ==
    /\ IsRequest(disp[d].req)
    /\ ~disp[d].req.unidirectional
    /\ Starts(d) # <<>>
    /\ \A k \in 1..Len(Starts(d)) : Starts(d)[k].kind = "void"

StartedSeq(d) == [k \in 1..Len(Starts(d)) |-> Starts(d)[k].uid]

\* The registrations of the dispatch of request d that were routed without a
\* filter or with a filter that holds of the context of d, in route order.
AcceptingSeq(d) ==
    LET acc == SelectSeq(disp[d].snap, LAMBDA reg : reg.filt \in {"any", disp[d].ctx})
    IN [k \in 1..Len(acc) |-> acc[k].uid]

\* Some handler invoked for request d threw.
SomeThrew(d) == \E k \in 1..Len(Starts(d)) : Starts(d)[k].kind = "throw"

Returned(k) == k < Len(gLog) \/ gPc = "idle"

\* C17: MessageGateway.receive(value) offers the value to the Client first;
\* Server.receive is called, with the same value, only when the Client
\* returned false and never when it returned true; and the call returns true
\* iff the Client or the Server returned true.
C17_ClientFirstThenServer ==
    /\ \A k \in 1..Len(gLog) :
          LET e == gLog[k]
          IN /\ e.calls \in {<<"client">>, <<"client", "server">>}
             /\ e.calls = <<"client", "server">> <=> e.d # 0
             /\ e.d # 0 => (~e.client /\ disp[e.d].req = e.value)
             /\ e.client => (e.calls = <<"client">> /\ e.result = "true")
             /\ (~e.client /\ Returned(k)) => e.d # 0
             /\ Returned(k) =>
                   /\ e.result \in {"true", "false", "threw"}
                   /\ e.result = "true" <=>
                         (e.client \/ (e.d # 0 /\ disp[e.d].ret = "true"))
                   /\ e.result = "false" <=>
                         (~e.client /\ e.d # 0 /\ disp[e.d].ret = "false")
             /\ ~Returned(k) => e.result = "pending"
    /\ \A d \in 1..sCount : \E k \in 1..Len(gLog) : gLog[k].d = d
    /\ \A j, k \in 1..Len(gLog) : (j # k /\ gLog[j].d # 0) => gLog[j].d # gLog[k].d

\* A gateway received a response its client was waiting for, which the server
\* was not offered, and then a request, which the client refused and a route
\* of the server handled.
C17_Witness ==
    /\ Len(gLog) = 2
    /\ gPc = "idle"
    /\ gLog[1].client /\ gLog[1].calls = <<"client">> /\ gLog[1].result = "true"
    /\ IsRequest(gLog[2].value)
    /\ ~gLog[2].client /\ gLog[2].calls = <<"client", "server">>
    /\ gLog[2].result = "true"
    /\ sCount = 1

\* C18: a call of the path-based Client.receive(value) returns true exactly
\* when value is a well-formed response whose id is in the pending pool at
\* that moment, and then it resolves that request with the response and takes
\* the id out of the pool; in every other case, a well-formed response with an
\* unknown or already resolved id included, it returns false and leaves the
\* pool, all timers and all resolved promises as they were.
C18_ReceiveTrueIffPending ==
    [][cRecv' = cRecv + 1 =>
         LET v == cLast'.value
             hit == IsResponse(v) /\ v.id \in cRequests
         IN /\ cLast'.result = hit
            /\ hit =>
                  /\ cRequests' = cRequests \ {v.id}
                  /\ cResolved' = [cResolved EXCEPT ![v.id] =
                         Append(@, ResponseMessage(v.id, v.path, v.status, v.body))]
                  /\ \A id \in ReqIds \ {v.id} : cTimer'[id] = cTimer[id]
                  /\ cTimer'[v.id] = IF v.status # 408 /\ cTimer[v.id] = "armed"
                                     THEN "cleared" ELSE cTimer[v.id]
            /\ ~hit =>
                  /\ cRequests' = cRequests
                  /\ cTimer' = cTimer
                  /\ cResolved' = cResolved
            /\ cSend' = cSend /\ cReq' = cReq /\ c2s' = c2s]_vars

\* A response was received for a pending request and resolved it, and the
\* same response received again was refused.
C18_Witness ==
    \E id \in ReqIds :
        /\ Sources(id) = <<"receive", "receive">>
        /\ cAttempts[id][1].found /\ ~cAttempts[id][2].found
        /\ cResolved[id] = <<cAttempts[id][1].res>>
        /\ cLast.value.id = id
        /\ ~cLast.result

\* C19 as stated: a call of RpcClient.receive(value) returns true exactly
\* when value is a well-formed response whose id matches a pending request;
\* for a well-formed response whose id matches no pending request it returns
\* false and changes nothing.
C19_RpcReceiveTrueIffPending ==
    [][qRecv' = qRecv + 1 =>
         LET v == qLast'.value
             hit == IsRpcResponse(v) /\ v.id \in qRequests
         IN /\ qLast'.result = hit
            /\ (IsRpcResponse(v) /\ v.id # Undefined /\ ~hit) =>
                  /\ ~qLast'.result
                  /\ qRequests' = qRequests
                  /\ qTimer' = qTimer
                  /\ qResolved' = qResolved
                  /\ qSurfaced' = qSurfaced]_vars

\* C20: a call of RpcClient.receive with an error response that carries no id
\* surfaces the response once, as {ok: false, error}, through the
\* 'unidentifiedResponse' event (the options.error callback in the later
\* class), and resolves or removes no pending request; no other call surfaces
\* anything.
C20_UnidentifiedErrorSurfaced ==
    [][qRecv' = qRecv + 1 =>
         LET v == qLast'.value
         IN IF IsRpcResponse(v) /\ v.id = Undefined
            THEN /\ qSurfaced' = Append(qSurfaced,
                        [via |-> IF qVariant = "event" THEN "unidentifiedResponse"
                                                       ELSE "options.error",
                         response |-> [ok |-> FALSE, error |-> v.error]])
                 /\ qRequests' = qRequests
                 /\ qResolved' = qResolved
                 /\ qTimer' = qTimer
            ELSE qSurfaced' = qSurfaced]_vars

\* An error response without id was received while a request was pending:
\* it was surfaced and the request is still pending.
C20_Witness ==
    /\ qSurfaced # <<>>
    /\ qLast.value \in {RpcErrorMessage(Undefined, e) : e \in RpcErrors}
    /\ qRequests # {}
    /\ \E id \in qRequests : qResolved[id] = <<>> /\ qTimer[id] = "armed"

\* The notifications among the envelopes the RpcClient passed to its proxy.
NotificationsOut == SelectSeq(qOut, LAMBDA e : e.id = Undefined)

\* C21: a call of RpcClient.notify passes exactly one request envelope to
\* the proxy, without id, and leaves the pending pool, the timers and the
\* request promises alone; when the proxy call settles the notify call
\* resolves, whatever the proxy resolved to (it rejects when the proxy threw),
\* and that step sends nothing and changes no pool entry or timer either.
C21_NotifyFireAndForget ==
    [][/\ Len(qNotes') = Len(qNotes) + 1 =>
             /\ qOut' = Append(qOut, [jsonrpc |-> "2.0", id |-> Undefined, method |-> "m"])
             /\ qNotes'[Len(qNotes')].state = "await"
             /\ UNCHANGED <<qRequests, qTimer, qResolved, qSend, qNext>>
       /\ \A n \in 1..Len(qNotes) :
             (Len(qNotes') = Len(qNotes) /\ qNotes'[n] # qNotes[n]) =>
                 /\ qNotes[n].state = "await"
                 /\ qNotes'[n].proxy = qNotes[n].proxy
                 /\ qNotes'[n].state =
                       IF qNotes[n].proxy \in {"true", "false"} THEN "resolved" ELSE "rejected"
                 /\ UNCHANGED <<qOut, qRequests, qTimer, qResolved, qSend, qNext>>
       /\ Len(NotificationsOut') = Len(qNotes')]_vars

\* A notification the proxy did not accept: the notify call has resolved, one
\* envelope without id went to the proxy, and a request sent before it is
\* still pending with its timer armed.
C21_Witness ==
    \E n \in 1..Len(qNotes) :
        /\ qNotes[n].proxy = "false"
        /\ qNotes[n].state = "resolved"
        /\ Len(NotificationsOut) = Len(qNotes)
        /\ \E id \in qRequests : qTimer[id] = "armed"

\* Call k of Client.send is outstanding: its promise is not resolved.
Outstanding(k) == pCalls[k].promise = <<>>

\* C22 as stated: whatever the sequence of Client.send calls, no two requests
\* outstanding at the same time share an id, and registering the handler of a
\* new request never overwrites the pool entry of a request that is still
\* outstanding.
C22_OutstandingIdsUnique ==
    /\ \A j, k \in 1..Len(pCalls) :
          (j < k /\ Outstanding(j) /\ Outstanding(k)) => pCalls[j].id # pCalls[k].id
    /\ \A k \in 1..Len(pCalls) : pCalls[k].over = 0

RpcStarts(d) == SelectSeq(jLog[d], LAMBDA e : e.ev = "start")

\* What the handler of invocation j of a finished chain returns.
RECURSIVE ReturnOf(_, _)
ReturnOf(S, j) ==
    CASE S[j].kind \in {"ret", "nextOwn"} -> BodySeq[S[j].uid]
      [] S[j].kind = "next" -> IF j < Len(S) THEN ReturnOf(S, j + 1) ELSE Null
      [] OTHER -> Undefined

\* Request d has an id, found handlers for its method, and RpcServer.receive
\* has returned for it without any handler throwing.
ChainCompleted(d) ==
    /\ IsRpcRequest(jDisp[d].req)
    /\ jDisp[d].req.id # Undefined
    /\ jDisp[d].snap # <<>>
    /\ jDisp[d].pc = "done"
    /\ \A j \in 1..Len(RpcStarts(d)) :
          RpcStarts(d)[j].kind \notin {"throw", "throwValue", "errorThrow"}

\* C24 as stated: for a request with an id the first registered handler of
\* the method is the only one invoked directly, handler k+1 runs iff handler
\* k calls next(), next() with no handler left yields null, and exactly one
\* response is sent, whose result is the return value of the first handler, or
\* null when that value is undefined.
C24_ChainOneResponse ==
    \A d \in RpcDispatches :
        ChainCompleted(d) =>
            LET S == RpcStarts(d)
            IN /\ S # <<>>
               /\ \A j \in 1..Len(S) : S[j].k = j /\ S[j].uid = jDisp[d].snap[j].uid
               /\ \A j \in 1..(Len(S) - 1) : S[j].kind \in {"next", "nextOwn"}
               /\ S[Len(S)].kind \in {"next", "nextOwn"} => Len(S) = Len(jDisp[d].snap)
               /\ RpcProxyEvents(d) =
                     <<RpcProxyEvent(jDisp[d].req.id, "server", "success",
                                     Nullish(ReturnOf(S, 1)))>>

\* The error responses RpcServer's sender was handed for dispatch d.
RpcErrorsSent(d) == SelectSeq(RpcProxyEvents(d), LAMBDA e : "error" \in DOMAIN e.env)

\* C25 as stated: for a notification (a request without id) success sends
\* nothing, so no result response is ever sent and a chain that completes
\* normally sends no response at all; an error response (method not found,
\* handler threw, explicit error()) is sent at most once, with an undefined
\* id.
C25_NotificationResponses ==
    \A d \in RpcDispatches :
        (IsRpcRequest(jDisp[d].req) /\ jDisp[d].req.id = Undefined) =>
            /\ \A k \in 1..Len(RpcProxyEvents(d)) :
                  /\ "result" \notin DOMAIN RpcProxyEvents(d)[k].env
                  /\ RpcProxyEvents(d)[k].env.id = Undefined
            /\ (\A j \in 1..Len(RpcStarts(d)) :
                   RpcStarts(d)[j].kind \in {"ret", "void", "next", "nextOwn", "respond"})
                  => (jDisp[d].snap # <<>> => RpcProxyEvents(d) = <<>>)
            /\ Len(RpcErrorsSent(d)) <= 1

\* C26 as stated: once dispose() has been called, the dispose callback of
\* every registration has been invoked exactly once and the stack is
\* disposed, and further dispose() calls invoke nothing more.
C26_DisposedExactlyOnce ==
    dLast.op = "dispose" =>
        /\ dDisposed
        /\ \A i \in 1..Len(dRegs) : dInv[i] = 1

\* C27: once the stack is disposed, use, adopt and defer throw the "already
\* disposed" error and register nothing, and the stack stays disposed.
C27_NoStackingWhenDisposed ==
    [][dDisposed =>
          /\ dDisposed'
          /\ dLast'.op \in {"use", "adopt", "defer"} =>
                /\ dLast'.outcome = AlreadyDisposed
                /\ dRegs' = dRegs
                /\ dStack' = dStack
                /\ dInv' = dInv]_vars

\* A stack with two registrations was disposed and then asked to take a
\* resource by each of use, adopt and defer.
C27_Witness ==
    /\ dDisposed
    /\ Len(dRegs) = 2
    /\ dInv = <<1, 1>>
    /\ dLast.outcome = AlreadyDisposed
    /\ dLast.n = 4

\* C28: the calls of the debounced function made between two firings of the
\* timer form a burst: they all return the same promise, fn is invoked exactly
\* once for them, with the arguments of the last call of the burst, the
\* promise is resolved only after that invocation has completed, and a call
\* made after the timer fired returns a new promise.
C28_DebounceBurst ==
    /\ \A r \in 1..Len(bRuns) :
          LET run == bRuns[r]
              first == IF r = 1 THEN 1 ELSE bRuns[r - 1].at + 1
          IN /\ run.promise # 0
             /\ first <= run.at
             /\ \A k \in 1..Len(bCalls) : (bCalls[k].promise = run.promise) <=> k \in first..run.at
             /\ run.args = bCalls[run.at].args
             /\ \A q \in 1..Len(bRuns) : bRuns[q].promise = run.promise => q = r
    /\ \A p \in bResolved : \E r \in 1..Len(bRuns) : bRuns[r].promise = p /\ bRuns[r].state = "done"
    /\ \A k \in 1..Len(bCalls) :
          (bCalls[k].promise = bResolvers /\ bHandle # Undefined) \/
          (\E r \in 1..Len(bRuns) : bRuns[r].promise = bCalls[k].promise)

\* A burst of two calls with different arguments ran fn with the second
\* arguments and resolved, and a third call started a second burst.
C28_Witness ==
    /\ Len(bCalls) = 3
    /\ bCalls[1] = [args |-> "x", promise |-> 1]
    /\ bCalls[2] = [args |-> "y", promise |-> 1]
    /\ bCalls[3].promise = 2
    /\ bRuns = <<[promise |-> 1, args |-> "y", at |-> 2, state |-> "done"]>>
    /\ bResolved = {1}

\* C29 as stated: a timeout timer is armed only for request ids that are in
\* the pending pool, and once a pending request was resolved by a received
\* response, whatever its status, or by the transport not accepting it, its
\* timer is cancelled and so never fires afterwards.
C29_TimerOnlyWhilePending ==
    \A id \in ReqIds :
        /\ cTimer[id] = "armed" => id \in cRequests
        /\ \A k \in 1..Len(cAttempts[id]) :
              (cAttempts[id][k].found /\ cAttempts[id][k].src \in {"receive", "proxy"})
                 => cTimer[id] = "cleared"

NotFoundWritten(d) ==
    SelectSeq(mDisp[d].written,
              LAMBDA e : "error" \in DOMAIN e /\ e.error.code = MethodNotFound)

\* C31 as stated: when a request with an id is dispatched and no handler is
\* registered for its method, a MethodNotFound error response is sent and
\* nothing is invoked; when at least one handler is registered, the chain is
\* invoked and no MethodNotFound error is sent.
C31_NotFoundIffNoHandler ==
    \A d \in 1..Len(mDisp) :
        (mDisp[d].handler = "request" /\ mDisp[d].pc = "done") =>
            /\ mDisp[d].snap = <<>> =>
                  (Len(NotFoundWritten(d)) = 1 /\ mDisp[d].invoked = <<>>)
            /\ mDisp[d].snap # <<>> =>
                  (NotFoundWritten(d) = <<>> /\ mDisp[d].invoked # <<>>
                   /\ mDisp[d].invoked[1] = mDisp[d].snap[1].uid)

\* C32 as stated: emit(event) returns true iff at least one listener is
\* registered for the event when it is called; in particular it returns
\* false once every listener of the event has been removed.
C32_EmitTrueIffListeners ==
    eLast.op = "emit" => (eLast.result <=> eLast.before # <<>>)

\* Handle uid of RpcServer.addMethod is one of two live registrations of the
\* same function under the same name.
RegisteredTwice(uid) ==
    \E other \in 1..Len(jHandles) :
        /\ other # uid
        /\ jHandles[other].name = jHandles[uid].name
        /\ jHandles[other].fn = jHandles[uid].fn
        /\ \E k \in 1..Len(jMethods[jHandles[uid].name]) :
              jMethods[jHandles[uid].name][k].uid = other
        /\ \E k \in 1..Len(jMethods[jHandles[uid].name]) :
              jMethods[jHandles[uid].name][k].uid = uid

\* C39 as stated: when the same function is registered twice under the same
\* name, disposing one of the two handles removes exactly that registration;
\* the other one stays registered.
C39_DisposeRemovesOne ==
    [][\A uid \in 1..Len(jHandles) :
          (RegisteredTwice(uid) /\ ~jHandles[uid].disposed /\ jHandles'[uid].disposed) =>
              jMethods'[jHandles[uid].name] =
                  SelectSeq(jMethods[jHandles[uid].name], LAMBDA x : x.uid # uid)]_vars

\* C40 as stated: emit invokes, once each and in registration order, every
\* listener that was registered for the event when emit was called, also when
\* a listener removes itself during the emit.
C40_EmitInvokesAll ==
    eLast.op = "emit" =>
        /\ Len(eLast.invoked) = Len(eLast.before)
        /\ \A k \in 1..Len(eLast.before) : eLast.invoked[k] = eLast.before[k].uid

\* Client.send for id has returned a response to its caller: the one response
\* the request was resolved with, which is a received response, the 406 of a
\* refused request or the 408 of the timer.
SendResolved(id) ==
    /\ cSend[id] = "returned"
    /\ Len(cResolved[id]) = 1
    /\ Outcome(id) = cResolved[id][1]
    /\ \E k \in 1..Len(cAttempts[id]) :
          /\ cAttempts[id][k].found
          /\ cAttempts[id][k].res = cResolved[id][1]
          /\ cAttempts[id][k].src = "proxy" => cResolved[id][1].status = 406
          /\ cAttempts[id][k].src = "timer" => cResolved[id][1].status = 408

TimedOut(id) ==
    /\ cResolved[id] # <<>>
    /\ cResolved[id][1].status = 408
    /\ cAttempts[id][1].src = "timer"

\* C34 as stated: when the timer of a request fires while the proxy call of
\* its send has not settled, the promise returned by Client.send resolves
\* with the 408 at that point, without waiting for the proxy call.
C34_TimeoutDeliveredAtOnce ==
    \A id \in ReqIds : TimedOut(id) => Outcome(id) = cResolved[id][1]

\* C35 as stated: the pending pool holds exactly the ids of the requests that
\* were sent and whose resolver has not been invoked yet, so it is empty once
\* every request sent has been resolved.
C35_PoolAccounting ==
    \A id \in ObjIds :
        (pPool[id] # 0) <=> (\E k \in 1..Len(pCalls) : pCalls[k].id = id /\ pCalls[k].promise = <<>>)

\* C36: with several requests outstanding, a response, a timer or a refusal
\* for one request invokes the resolver of that request only and removes only
\* its id from the pool; the pool entry, the timer and the outcome of every
\* other request are as they were.
C36_OthersUntouched ==
    [][\A id \in ReqIds :
          (cAttempts'[id] # cAttempts[id]) =>
              /\ \A other \in ReqIds \ {id} :
                    /\ cAttempts'[other] = cAttempts[other]
                    /\ cResolved'[other] = cResolved[other]
                    /\ cTimer'[other] = cTimer[other]
                    /\ (other \in cRequests') <=> (other \in cRequests)
                    /\ Outcome(other)' = Outcome(other)
              /\ cRequests' = cRequests \ {id}
              /\ Len(cResolved'[id]) <= 1]_vars

\* Two requests were outstanding and each was resolved by the response
\* received for it and by nothing else.
C36_Witness ==
    /\ Len(cAttempts["r1"]) = 1 /\ Len(cAttempts["r2"]) = 1
    /\ cAttempts["r1"][1].src = "receive" /\ cAttempts["r2"][1].src = "receive"
    /\ cResolved["r1"] # <<>> /\ cResolved["r2"] # <<>>
    /\ cSend["r1"] = "returned" /\ cSend["r2"] = "returned"
    /\ cRequests = {}



\* Position p of the log of request d is the invocation of a handler that
\* throws or rejects.
ThrowAt(d, p) == sLog[d][p].ev = "start" /\ sLog[d][p].kind = "throw"

\* C37 as stated: when a handler throws or rejects, no handler registered
\* later on the path is invoked for the request, the server sends neither the
\* fallback 200 nor a 501 for it, and the only response passed to the proxy
\* is the one sent before the handler threw or the 500.
C37_ThrowEndsDispatch ==
    \A d \in Dispatches :
        \A p \in 1..Len(sLog[d]) :
            ThrowAt(d, p) =>
                /\ \A q \in (p + 1)..Len(sLog[d]) : sLog[d][q].ev \notin {"filter", "start"}
                /\ \A q \in 1..Len(sLog[d]) : sLog[d][q].ev = "proxy" => sLog[d][q].i # 0
                /\ Len(ProxyEvents(d)) <= 1
                /\ \A q \in (p + 1)..Len(sLog[d]) :
                      sLog[d][q].ev = "proxy" =>
                         sLog[d][q] = ProxyEvent(d, sLog[d][p].i, "server", 500, Undefined)
                /\ disp[d].pc = "done" =>
                      (Len(ProxyEvents(d)) = 1 /\ disp[d].ret = "threw")


\* C38: dispatch works on a snapshot.  The handlers of a request are the
\* listeners its path had when its dispatch started, in that order: the list
\* is taken at that moment and never changes afterwards, every handler
\* invoked is the one at its place in the list, a route registered afterwards
\* is never invoked for the request, a route disposed afterwards still is,
\* and when the dispatch ends without a throw exactly the accepting handlers
\* of the list were invoked, in order.
C38_DispatchOnSnapshot ==
    /\ [](\A d \in Dispatches :
             IsRequest(disp[d].req) =>
                /\ \A p \in 1..Len(sLog[d]) :
                      sLog[d][p].ev = "start" =>
                         /\ sLog[d][p].i \in 1..Len(disp[d].snap)
                         /\ sLog[d][p].uid = disp[d].snap[sLog[d][p].i].uid
                         /\ sLog[d][p].uid <= disp[d].regd
                         /\ sLog[d][p].uid \notin disp[d].gone
                /\ Len(StartedSeq(d)) <= Len(AcceptingSeq(d))
                /\ StartedSeq(d) = SubSeq(AcceptingSeq(d), 1, Len(StartedSeq(d)))
                /\ (disp[d].pc = "done" /\ ~SomeThrew(d)) => StartedSeq(d) = AcceptingSeq(d))
    /\ [][\A d \in Dispatches :
             /\ (disp[d].pc = "idle" /\ IsRequest(disp'[d].req)) =>
                   /\ disp'[d].snap = routes[disp'[d].req.path]
                   /\ disp'[d].regd = sUid /\ disp'[d].gone = sDisposed
             /\ disp[d].pc # "idle" =>
                   /\ disp'[d].snap = disp[d].snap
                   /\ disp'[d].regd = disp[d].regd /\ disp'[d].gone = disp[d].gone]_vars

\* C38 witness: while the handler of the only route of the path was running
\* for a request, that route had been disposed and another route had been
\* registered on the path since the request was received.
C38_Witness ==
    \E d \in Dispatches :
        /\ IsRequest(disp[d].req)
        /\ disp[d].pc = "ret"
        /\ Len(disp[d].snap) = 1
        /\ StartedSeq(d) = <<disp[d].snap[1].uid>>
        /\ disp[d].snap[1].uid \in sDisposed \ disp[d].gone
        /\ Len(routes[disp[d].req.path]) = 1
        /\ routes[disp[d].req.path][1].uid > disp[d].regd

====
